---- MODULE Spec2Model ----
(***************************************************************************)
(* State-machine model of the scene engine of the diagram editor           *)
(* (src/src/app/*.rs, src/src/model.rs): the Document with its elements    *)
(* and groups, the selection, the snapshot based undo/redo history, the    *)
(* clipboard and the document mutation operations.                         *)
(*                                                                         *)
(* Encoding.  Option<T> is a sequence of length 0 (None) or 1 (Some(v)).   *)
(* A world point is a pair <<x, y>> of integers.  An element is a record   *)
(*   [id, group_id, kind, a, b, start_binding, end_binding, style]         *)
(* where for kind "Rect" a/b are rect.min/rect.max and for kind "Line"     *)
(* a/b are the stored end points.  A Binding is [element_id, norm] with    *)
(* norm in thousandths (norm = <<500, -500>> is (0.5, -0.5)).              *)
(* The methods of DiagramApp are operators from an app record (the fields  *)
(* of the struct) to an app record; the actions apply them to the          *)
(* variables.  update() runs sync_bound_line_endpoints and then any        *)
(* number of handlers in one frame, so the frame start (Sync) and the      *)
(* handlers are separate actions.                                          *)
(***************************************************************************)
EXTENDS Integers, Sequences, FiniteSets, TLC

VARIABLES
    doc,                    \* DiagramApp.doc: [elements, groups]
    selected,               \* DiagramApp.selected: HashSet<u64>
    next_id,                \* DiagramApp.next_id
    next_group_id,          \* DiagramApp.next_group_id
    style,                  \* DiagramApp.style
    in_progress,            \* DiagramApp.in_progress: Option<InProgress>
    active_transform,       \* DiagramApp.active_transform: Option<ActiveTransform>
    editing_text_id,        \* DiagramApp.editing_text_id: Option<u64>
    status,                 \* DiagramApp.status: Option<String>
    history,                \* DiagramApp.history: Vec<Snapshot>
    future,                 \* DiagramApp.future: Vec<Snapshot>
    clipboard,              \* DiagramApp.clipboard: Option<ClipboardPayload>
    drag_transform_recorded,\* DiagramApp.drag_transform_recorded
    view,                   \* DiagramApp.view: [pan_screen, zoom], exact rationals
    zoomed,                 \* observer: the view and the arguments of the last zoom
    probed,                 \* observer: the last binding query and its answer
    lastOp,                 \* observer: the handler that ran last
    trail,                  \* observer: the handlers before lastOp, kept around undo/redo
    pre,                    \* observer: the app record lastOp started from
    issued,                 \* observer: every element id handed out so far
    steps                   \* observer: the number of handlers run so far

vars == <<doc, selected, next_id, next_group_id, style, in_progress,
          active_transform, editing_text_id, status, history, future,
          clipboard, drag_transform_recorded, view, zoomed, probed, lastOp, trail, pre,
          issued, steps>>

(***************************************************************************)
(* Bounds of the model and constants of the program.                       *)
(***************************************************************************)
MaxElems == 6       \* creation, duplicate and paste keep at most this many elements
MaxSteps == 3       \* handlers run after the initial scene
MaxPushes == 202    \* checkpoints taken by the long editing session of SpecHist
LIMIT == 200        \* push_undo: const LIMIT
MaxDepth == 258     \* nested groups in the diagrams the deep session opens
ShallowDepth == 6   \* ... next to the depths 1..ShallowDepth
MaxLoose == 2       \* ... and the elements outside every group in them
MaxProbes == 1      \* binding queries of the binding session
MaxZooms == 2       \* zooms of the zooming session
HOPS == 256         \* group_root: for _ in 0..256

None == << >>
Some(v) == << v >>
IsSome(o) == Len(o) = 1
IsNone(o) == Len(o) = 0
Unwrap(o) == o[1]

Range(s) == { s[i] : i \in 1..Len(s) }

\* the element of a one-element set
Only(S) == CHOOSE x \in S : TRUE

\* let v be the value of an expression in F: Bind(e, LAMBDA v : ...)
Bind(v, F(_)) == F(v)

\* The fields of DiagramApp as one record
App ==
    [ doc |-> doc, selected |-> selected, next_id |-> next_id,
      next_group_id |-> next_group_id, style |-> style,
      in_progress |-> in_progress, active_transform |-> active_transform,
      editing_text_id |-> editing_text_id, status |-> status,
      history |-> history, future |-> future, clipboard |-> clipboard,
      drag_transform_recorded |-> drag_transform_recorded ]

\* Document::default and DiagramApp::new
NewApp ==
    [ doc |-> [ elements |-> << >>, groups |-> << >> ], selected |-> {},
      next_id |-> 1, next_group_id |-> 1,
      style |-> [ width |-> 2, fill |-> Some("white") ],
      in_progress |-> None, active_transform |-> None,
      editing_text_id |-> None, status |-> None,
      history |-> << >>, future |-> << >>, clipboard |-> None,
      drag_transform_recorded |-> FALSE ]

(***************************************************************************)
(* Undo/redo history (actions.rs)                                          *)
(***************************************************************************)
snapshot(s) ==
    [ doc |-> s.doc, selected |-> s.selected, next_id |-> s.next_id,
      next_group_id |-> s.next_group_id, style |-> s.style ]

\* faulty variant of restore that leaves the selection alone (sensitivity of UndoInverse)
restore_keeps_selection(s, snap) ==
    [ s EXCEPT !.doc = snap.doc,
               !.next_id = snap.next_id, !.next_group_id = snap.next_group_id,
               !.style = snap.style, !.in_progress = None,
               !.editing_text_id = None, !.status = None ]

restore(s, snap) ==
    [ s EXCEPT !.doc = snap.doc, !.selected = snap.selected,
               !.next_id = snap.next_id, !.next_group_id = snap.next_group_id,
               !.style = snap.style, !.in_progress = None,
               !.editing_text_id = None, !.status = None ]

\* faulty variant of the drain that keeps one entry too many (sensitivity of HistoryBounded)
DrainOverflow_keeps_one_more(h) ==
    IF Len(h) > LIMIT + 1 THEN SubSeq(h, Len(h) - LIMIT, Len(h)) ELSE h

\* Vec::drain(0..overflow): drop the oldest entries beyond LIMIT
DrainOverflow(h) ==
    IF Len(h) > LIMIT THEN SubSeq(h, Len(h) - LIMIT + 1, Len(h)) ELSE h

\* faulty variant of push_undo that forgets future.clear() (sensitivity of EditInvalidatesRedo)
push_undo_keeps_future(s) ==
    [ s EXCEPT !.history = IF Len(s.history) + 1 > LIMIT
                           THEN SubSeq(Append(s.history, [ doc |-> s.doc, selected |-> s.selected,
                                                           next_id |-> s.next_id,
                                                           next_group_id |-> s.next_group_id,
                                                           style |-> s.style ]),
                                       Len(s.history) + 2 - LIMIT, Len(s.history) + 1)
                           ELSE Append(s.history, [ doc |-> s.doc, selected |-> s.selected,
                                                    next_id |-> s.next_id,
                                                    next_group_id |-> s.next_group_id,
                                                    style |-> s.style ]) ]

push_undo(s) ==
    [ s EXCEPT !.history = DrainOverflow(Append(s.history, snapshot(s))),
               !.future = << >> ]

undo(s) ==
    IF s.history = << >> THEN s
    ELSE LET prev == s.history[Len(s.history)]
             s1 == [ s EXCEPT !.history = SubSeq(s.history, 1, Len(s.history) - 1),
                              !.future = Append(s.future, snapshot(s)) ]
         IN  restore(s1, prev)

\* faulty variant of redo that does not checkpoint the state it leaves (sensitivity of RedoMirrorsUndo)
redo_without_checkpoint(s) ==
    IF s.future = << >> THEN s
    ELSE [ s EXCEPT !.future = SubSeq(s.future, 1, Len(s.future) - 1),
                    !.doc = s.future[Len(s.future)].doc,
                    !.selected = s.future[Len(s.future)].selected,
                    !.next_id = s.future[Len(s.future)].next_id,
                    !.next_group_id = s.future[Len(s.future)].next_group_id,
                    !.style = s.future[Len(s.future)].style,
                    !.in_progress = None, !.editing_text_id = None, !.status = None ]

redo(s) ==
    IF s.future = << >> THEN s
    ELSE LET next == s.future[Len(s.future)]
             s1 == [ s EXCEPT !.future = SubSeq(s.future, 1, Len(s.future) - 1),
                              !.history = Append(s.history, snapshot(s)) ]
         IN  restore(s1, next)

\* faulty variant of allocate_id that does not advance the counter (sensitivity of ElementIdsUnique)
allocate_id_stuck(s) == s

allocate_id(s) == [ s EXCEPT !.next_id = s.next_id + 1 ]

(***************************************************************************)
(* Lookups and the group forest (actions.rs)                               *)
(***************************************************************************)
ElementIds(d) == { d.elements[i].id : i \in 1..Len(d.elements) }
GroupIds(d) == { d.groups[i].id : i \in 1..Len(d.groups) }

\* Iterator::position / find: the first index whose item has this id, 0 if none
FirstIndex(seq, id) ==
    LET hits == { i \in 1..Len(seq) : seq[i].id = id }
    IN  IF hits = {} THEN 0 ELSE CHOOSE i \in hits : \A j \in hits : i <= j

element_index_by_id(s, id) ==
    LET i == FirstIndex(s.doc.elements, id) IN IF i = 0 THEN None ELSE Some(i)

FindElement(d, id) ==
    LET i == FirstIndex(d.elements, id) IN IF i = 0 THEN None ELSE Some(d.elements[i])

group_of(s, id) ==
    LET e == FindElement(s.doc, id) IN IF IsNone(e) THEN None ELSE Unwrap(e).group_id

group_parent(s, group_id) ==
    LET i == FirstIndex(s.doc.groups, group_id)
    IN  IF i = 0 THEN None ELSE s.doc.groups[i].parent_id

ensure_group_exists(s, group_id) ==
    IF group_id \in GroupIds(s.doc) THEN s
    ELSE [ s EXCEPT !.doc.groups = Append(@, [ id |-> group_id, parent_id |-> None ]) ]

\* faulty variant of set_group_parent that also hangs the parent under the child
\* (sensitivity of GroupsAreForest)
set_group_parent_both_ways(s, group_id, parent_id) ==
    LET s1 == ensure_group_exists(s, group_id)
    IN  [ s1 EXCEPT !.doc.groups =
            [ i \in 1..Len(s1.doc.groups) |->
                IF s1.doc.groups[i].id = group_id
                THEN [ s1.doc.groups[i] EXCEPT !.parent_id = parent_id ]
                ELSE IF Some(s1.doc.groups[i].id) = parent_id
                THEN [ s1.doc.groups[i] EXCEPT !.parent_id = Some(group_id) ]
                ELSE s1.doc.groups[i] ] ]

set_group_parent(s, group_id, parent_id) ==
    LET s1 == ensure_group_exists(s, group_id)
        i == FirstIndex(s1.doc.groups, group_id)
    IN  [ s1 EXCEPT !.doc.groups[i].parent_id = parent_id ]

\* the for loop of group_root run `hops` times.  A group without a parent ends
\* the walk, so the turns are run half by half, which keeps the evaluation shallow.
RECURSIVE GroupRootLoop(_, _, _)
GroupRootLoop(s, group_id, hops) ==
    IF hops = 0 \/ IsNone(group_parent(s, group_id)) THEN group_id
    ELSE IF hops = 1 THEN Unwrap(group_parent(s, group_id))
    ELSE GroupRootLoop(s, GroupRootLoop(s, group_id, hops \div 2), hops - hops \div 2)

group_root(s, group_id) == GroupRootLoop(s, group_id, HOPS)

root_group_of_element(s, element_id) ==
    LET g == group_of(s, element_id)
    IN  IF IsNone(g) THEN None ELSE Some(group_root(s, Unwrap(g)))

\* the ids of the groups whose parent_id is Some(g), in Vec order
ChildGroups(s, g) ==
    LET kids == SelectSeq(s.doc.groups, LAMBDA gr : gr.parent_id = Some(g))
    IN  [ i \in 1..Len(kids) |-> kids[i].id ]

\* the while-let loop over the stack, st = << stack, out >>: a turn pops the
\* last group, pushes its children and appends it to out.  The loop ends when
\* the stack is empty; the turns are run half by half.
DescendantsTurn(s, st) ==
    << SubSeq(st[1], 1, Len(st[1]) - 1) \o ChildGroups(s, st[1][Len(st[1])]),
       Append(st[2], st[1][Len(st[1])]) >>

RECURSIVE DescendantsLoop(_, _, _)
DescendantsLoop(s, st, turns) ==
    IF turns = 0 \/ st[1] = << >> THEN st
    ELSE IF turns = 1 THEN DescendantsTurn(s, st)
    ELSE DescendantsLoop(s, DescendantsLoop(s, st, turns \div 2), turns - turns \div 2)

\* in a forest every group is popped once at most, so Len(groups) + 1 turns
\* empty the stack
group_descendants_inclusive(s, group_id) ==
    DescendantsLoop(s, << << group_id >>, << >> >>, Len(s.doc.groups) + 1)[2]

group_members_recursive(s, group_id) ==
    Bind(Range(group_descendants_inclusive(s, group_id)), LAMBDA groups :
    Bind(SelectSeq(s.doc.elements,
                   LAMBDA e : IsSome(e.group_id) /\ Unwrap(e.group_id) \in groups),
         LAMBDA hit : [ i \in 1..Len(hit) |-> hit[i].id ]))


\* a set of ids as an ascending sequence (the model's order for a HashSet walk
\* whose order the result does not depend on in any reachable state)
RECURSIVE SortedSeq(_)
SortedSeq(S) ==
    IF S = {} THEN << >>
    ELSE LET m == CHOOSE x \in S : \A y \in S : x <= y
         IN  << m >> \o SortedSeq(S \ { m })

RECURSIVE EnsureAll(_, _)
EnsureAll(s, gids) ==
    IF gids = << >> THEN s
    ELSE EnsureAll(ensure_group_exists(s, gids[1]), Tail(gids))

\* the stack loop of normalize_groups: add the ancestors of the used groups
RECURSIVE UsedClosure(_, _)
UsedClosure(s, used) ==
    LET more == { Unwrap(group_parent(s, g)) :
                    g \in { u \in used : IsSome(group_parent(s, u)) } }
    IN  IF more \subseteq used THEN used ELSE UsedClosure(s, used \cup more)

normalize_groups(s) ==
    LET d == s.doc
        used0 == { Unwrap(d.elements[i].group_id) :
                      i \in { j \in 1..Len(d.elements) : IsSome(d.elements[j].group_id) } }
                 \cup GroupIds(d)
                 \cup { Unwrap(d.groups[i].parent_id) :
                          i \in { j \in 1..Len(d.groups) : IsSome(d.groups[j].parent_id) } }
    IN  Bind(UsedClosure(s, used0), LAMBDA used :
        Bind(EnsureAll(s, SortedSeq(used)), LAMBDA s1 :
        Bind(SelectSeq(s1.doc.groups, LAMBDA g : g.id \in used), LAMBDA kept :
        Bind({ kept[i].id : i \in 1..Len(kept) }, LAMBDA ids :
             [ s1 EXCEPT !.doc.groups =
                  [ i \in 1..Len(kept) |->
                      IF IsSome(kept[i].parent_id) /\ Unwrap(kept[i].parent_id) \notin ids
                      THEN [ kept[i] EXCEPT !.parent_id = None ]
                      ELSE kept[i] ] ]))))


(***************************************************************************)
(* Selection (actions.rs)                                                  *)
(***************************************************************************)
clear_selection(s) == [ s EXCEPT !.selected = {}, !.editing_text_id = None ]

set_selection_single(s, id) ==
    Bind(root_group_of_element(s, id), LAMBDA root :
         [ s EXCEPT !.selected =
                       IF IsSome(root)
                       THEN Range(group_members_recursive(s, Unwrap(root)))
                       ELSE { id },
                    !.editing_text_id = None ])


\* a toggle that flips the clicked element only, grouped or not
toggle_selection_single(s, id) ==
    [ s EXCEPT !.selected = IF id \in s.selected THEN s.selected \ { id }
                            ELSE s.selected \cup { id },
               !.editing_text_id = None ]

toggle_selection(s, id) ==
    Bind(root_group_of_element(s, id), LAMBDA root :
    Bind(IF IsSome(root) THEN Range(group_members_recursive(s, Unwrap(root))) ELSE {},
         LAMBDA members :
         [ s EXCEPT !.selected =
                       IF IsSome(root)
                       THEN IF members \subseteq s.selected
                            THEN s.selected \ members
                            ELSE s.selected \cup members
                       ELSE IF id \in s.selected
                            THEN s.selected \ { id }
                            ELSE s.selected \cup { id },
                    !.editing_text_id = None ]))


(***************************************************************************)
(* Geometry of unrotated rectangles and lines in integers (geometry.rs).   *)
(* Centers are kept doubled (min + max) so that no half appears.           *)
(***************************************************************************)
PAdd(p, q) == << p[1] + q[1], p[2] + q[2] >>
PSub(p, q) == << p[1] - q[1], p[2] - q[2] >>
Abs(x) == IF x < 0 THEN -x ELSE x
Min2(x, y) == IF x <= y THEN x ELSE y
Max2(x, y) == IF x >= y THEN x ELSE y
Clamp(x, lo, hi) == Max2(lo, Min2(hi, x))
\* f32 division of the model's integers, rounded toward zero
TDiv(x, y) == IF x >= 0 THEN x \div y ELSE -((-x) \div y)
\* f32::signum: 1.0 for +0.0
Signum(x) == IF x >= 0 THEN 1 ELSE -1

\* the rect-family kinds of the model: a rectangle, and a triangle as the
\* Triangle tool makes it (apex_ratio 0.0)
BindableKinds == { "Rect", "Triangle" }
IsShape(e) == e.kind \in BindableKinds
IsLine(e) == e.kind = "Line"
RectSize(e) == PSub(e.b, e.a)
RectCenter2(e) == PAdd(e.a, e.b)

translate_element(e, delta) == [ e EXCEPT !.a = PAdd(@, delta), !.b = PAdd(@, delta) ]

hit_test_rotated_rect(e, world_pos, threshold_world) ==
    /\ Abs(2 * world_pos[1] - RectCenter2(e)[1]) <= RectSize(e)[1] + 2 * threshold_world
    /\ Abs(2 * world_pos[2] - RectCenter2(e)[2]) <= RectSize(e)[2] + 2 * threshold_world

\* a search for the bind target from the bottom of the sequence
topmost_bind_target_id_lowest(d, world_pos, threshold_world) ==
    Bind({ i \in 1..Len(d.elements) :
             /\ IsShape(d.elements[i])
             /\ hit_test_rotated_rect(d.elements[i], world_pos, threshold_world) },
         LAMBDA hits :
            IF hits = {} THEN None
            ELSE Some(d.elements[CHOOSE i \in hits : \A j \in hits : i <= j].id))

\* iter().rev(): the last bindable shape of the sequence that is hit
topmost_bind_target_id(d, world_pos, threshold_world) ==
    Bind({ i \in 1..Len(d.elements) :
             /\ IsShape(d.elements[i])
             /\ hit_test_rotated_rect(d.elements[i], world_pos, threshold_world) },
         LAMBDA hits :
            IF hits = {} THEN None
            ELSE Some(d.elements[CHOOSE i \in hits : \A j \in hits : j <= i].id))


\* (local / size).clamp(-0.5, 0.5) in thousandths, local given doubled
NormClamped(local2, size) ==
    IF local2 >= size THEN 500
    ELSE IF local2 <= -size THEN -500
    ELSE TDiv(local2 * 500, size)

\* the body of compute_binding_for_element on a doubled world position
BindingAtDoubled(e, p2) ==
    IF ~IsShape(e) THEN None
    ELSE IF RectSize(e)[1] <= 0 \/ RectSize(e)[2] <= 0 THEN None
    ELSE LET nx == NormClamped(p2[1] - RectCenter2(e)[1], RectSize(e)[1])
             ny == NormClamped(p2[2] - RectCenter2(e)[2], RectSize(e)[2])
             dx == 500 - Abs(nx)
             dy == 500 - Abs(ny)
         IN  Some([ element_id |-> e.id,
                    norm |-> IF dx < dy THEN << Signum(nx) * 500, ny >>
                                        ELSE << nx, Signum(ny) * 500 >> ])

compute_binding_for_element(e, world_pos) ==
    BindingAtDoubled(e, << 2 * world_pos[1], 2 * world_pos[2] >>)

compute_binding_for_target(d, target_id, world_pos) ==
    LET e == FindElement(d, target_id)
    IN  IF IsNone(e) THEN None ELSE compute_binding_for_element(Unwrap(e), world_pos)

\* a resolution that measures the normalized point from the min corner
resolve_binding_point_from_corner(d, binding) ==
    Bind(FindElement(d, binding.element_id), LAMBDA e :
         IF IsNone(e) \/ ~IsShape(Unwrap(e)) THEN None
         ELSE LET t == Unwrap(e)
              IN  Some(<< TDiv(t.a[1] * 1000 + binding.norm[1] * RectSize(t)[1], 1000),
                          TDiv(t.a[2] * 1000 + binding.norm[2] * RectSize(t)[2], 1000) >>))
resolve_binding_point(d, binding) ==
    Bind(FindElement(d, binding.element_id), LAMBDA e :
         IF IsNone(e) \/ ~IsShape(Unwrap(e)) THEN None
         ELSE LET t == Unwrap(e)
              IN  Some(<< TDiv(RectCenter2(t)[1] * 500 + binding.norm[1] * RectSize(t)[1], 1000),
                          TDiv(RectCenter2(t)[2] * 500 + binding.norm[2] * RectSize(t)[2], 1000) >>))


ResolveOr(d, binding, p) ==
    IF IsNone(binding) THEN p
    ELSE Bind(resolve_binding_point(d, Unwrap(binding)), LAMBDA r :
              IF IsNone(r) THEN p ELSE Unwrap(r))


\* the pair of effective end points of a line
resolved_line_endpoints_world(d, a, b, start_binding, end_binding) ==
    << ResolveOr(d, start_binding, a), ResolveOr(d, end_binding, b) >>

\* rotated_rect_aabb for a rotation of q quarter turns about the center: an
\* odd number of turns swaps the half extents
rotated_rect_aabb(lo, hi, q) ==
    IF q % 2 = 0 THEN << lo, hi >>
    ELSE << << TDiv(lo[1] + hi[1] - (hi[2] - lo[2]), 2), TDiv(lo[2] + hi[2] - (hi[1] - lo[1]), 2) >>,
            << TDiv(lo[1] + hi[1] + (hi[2] - lo[2]), 2), TDiv(lo[2] + hi[2] + (hi[1] - lo[1]), 2) >> >>

\* egui::Rect::expand
Expand(r, amnt) == << PSub(r[1], << amnt, amnt >>), PAdd(r[2], << amnt, amnt >>) >>

\* bounds that reach half the stroke width beyond the outline
bounds_half_stroke(e) ==
    Bind(<< << Min2(e.a[1], e.b[1]), Min2(e.a[2], e.b[2]) >>,
            << Max2(e.a[1], e.b[1]), Max2(e.a[2], e.b[2]) >> >>, LAMBDA r :
         Expand(IF IsShape(e) THEN rotated_rect_aabb(r[1], r[2], e.rotation) ELSE r,
                TDiv(e.style.width, 2)))

\* Element::bounds (model.rs): <<min, max>>, expanded by the stroke width
bounds(e) ==
    Bind(<< << Min2(e.a[1], e.b[1]), Min2(e.a[2], e.b[2]) >>,
            << Max2(e.a[1], e.b[1]), Max2(e.a[2], e.b[2]) >> >>, LAMBDA r :
         Expand(IF IsShape(e) THEN rotated_rect_aabb(r[1], r[2], e.rotation) ELSE r,
                e.style.width))

\* egui::Rect::intersects
Intersects(r, q) ==
    /\ r[1][1] <= q[2][1] /\ q[1][1] <= r[2][1]
    /\ r[1][2] <= q[2][2] /\ q[1][2] <= r[2][2]

MapElements(s, F(_)) ==
    [ s EXCEPT !.doc.elements = [ i \in 1..Len(s.doc.elements) |-> F(s.doc.elements[i]) ] ]

\* a sync that writes nothing back
sync_bound_line_endpoints_stale(s) == s

sync_bound_line_endpoints(s) ==
    LET before == s.doc
        F(e) ==
            IF ~IsLine(e) \/ (IsNone(e.start_binding) /\ IsNone(e.end_binding)) THEN e
            ELSE Bind(resolved_line_endpoints_world(before, e.a, e.b,
                                                    e.start_binding, e.end_binding),
                      LAMBDA r :
                         [ e EXCEPT !.a = IF IsSome(e.start_binding) THEN r[1] ELSE @,
                                    !.b = IF IsSome(e.end_binding) THEN r[2] ELSE @ ])
    IN  MapElements(s, F)


(***************************************************************************)
(* Document mutation operations (actions.rs)                               *)
(***************************************************************************)
IsSelected(s, e) == e.id \in s.selected

BindsSelected(s, binding) == IsSome(binding) /\ Unwrap(binding).element_id \in s.selected

\* a delete that leaves the bindings of the surviving lines alone
delete_selected_keeps_bindings(s) ==
    IF s.selected = {} THEN s
    ELSE Bind(push_undo(s), LAMBDA s1 :
         LET kept == SelectSeq(s1.doc.elements, LAMBDA e : ~IsSelected(s1, e))
         IN  normalize_groups(clear_selection([ s1 EXCEPT !.doc.elements = kept ])))
\* a delete that also removes the lines bound to a deleted element
delete_selected_with_bound_lines(s) ==
    IF s.selected = {} THEN s
    ELSE Bind(push_undo(s), LAMBDA s1 :
         LET kept == SelectSeq(s1.doc.elements,
                               LAMBDA e : /\ ~IsSelected(s1, e)
                                          /\ ~BindsSelected(s1, e.start_binding)
                                          /\ ~BindsSelected(s1, e.end_binding))
         IN  normalize_groups(clear_selection([ s1 EXCEPT !.doc.elements = kept ])))
delete_selected(s) ==
    IF s.selected = {} THEN s
    ELSE Bind(push_undo(s), LAMBDA s1 :
         LET before == s1.doc
             kept == SelectSeq(s1.doc.elements, LAMBDA e : ~IsSelected(s1, e))
             F(e) ==
                IF ~IsLine(e) THEN e
                ELSE Bind(resolved_line_endpoints_world(before, e.a, e.b,
                                                        e.start_binding, e.end_binding),
                          LAMBDA r :
                             [ e EXCEPT
                                 !.a = IF BindsSelected(s1, e.start_binding) THEN r[1] ELSE @,
                                 !.start_binding =
                                     IF BindsSelected(s1, e.start_binding) THEN None ELSE @,
                                 !.b = IF BindsSelected(s1, e.end_binding) THEN r[2] ELSE @,
                                 !.end_binding =
                                     IF BindsSelected(s1, e.end_binding) THEN None ELSE @ ])
         IN  normalize_groups(
                clear_selection(MapElements([ s1 EXCEPT !.doc.elements = kept ], F))))


\* a bring-to-front that stacks the selected elements in reverse order
bring_selected_to_front_reversed(s) ==
    IF s.selected = {} THEN s
    ELSE Bind(push_undo(s), LAMBDA s1 :
         LET moved == SelectSeq(s1.doc.elements, LAMBDA e : IsSelected(s1, e))
             kept == SelectSeq(s1.doc.elements, LAMBDA e : ~IsSelected(s1, e))
         IN  [ s1 EXCEPT !.doc.elements =
                 kept \o [ i \in 1..Len(moved) |-> moved[Len(moved) + 1 - i] ] ])

bring_selected_to_front(s) ==
    IF s.selected = {} THEN s
    ELSE Bind(push_undo(s), LAMBDA s1 :
         LET moved == SelectSeq(s1.doc.elements, LAMBDA e : IsSelected(s1, e))
             kept == SelectSeq(s1.doc.elements, LAMBDA e : ~IsSelected(s1, e))
         IN  [ s1 EXCEPT !.doc.elements = kept \o moved ])


send_selected_to_back(s) ==
    IF s.selected = {} THEN s
    ELSE Bind(push_undo(s), LAMBDA s1 :
         LET back == SelectSeq(s1.doc.elements, LAMBDA e : IsSelected(s1, e))
             kept == SelectSeq(s1.doc.elements, LAMBDA e : ~IsSelected(s1, e))
         IN  [ s1 EXCEPT !.doc.elements = back \o kept ])


\* Vec::swap on 1-based indices
Swap(seq, i, j) == [ seq EXCEPT ![i] = seq[j], ![j] = seq[i] ]

\* for i in (0..len).rev(): move a selected entry over an unselected one above it
RECURSIVE LayerUpLoop(_, _, _)
LayerUpLoop(sel, els, i) ==
    IF i < 1 THEN els
    ELSE LayerUpLoop(sel,
            IF i + 1 <= Len(els) /\ els[i].id \in sel /\ els[i + 1].id \notin sel
            THEN Swap(els, i, i + 1) ELSE els,
            i - 1)

\* for i in 0..len-1: move a selected entry under an unselected one below it
RECURSIVE LayerDownLoop(_, _, _)
LayerDownLoop(sel, els, i) ==
    IF i + 1 > Len(els) THEN els
    ELSE LayerDownLoop(sel,
            IF els[i + 1].id \in sel /\ els[i].id \notin sel
            THEN Swap(els, i, i + 1) ELSE els,
            i + 1)

\* a raise that walks the sequence upwards, so that a raised element is met
\* again at its new place
RECURSIVE LayerUpAscending(_, _, _)
LayerUpAscending(sel, els, i) ==
    IF i + 1 > Len(els) THEN els
    ELSE LayerUpAscending(sel,
            IF els[i].id \in sel /\ els[i + 1].id \notin sel
            THEN Swap(els, i, i + 1) ELSE els,
            i + 1)
move_selected_layer_by_ascending(s, delta) ==
    IF delta = 0 \/ s.selected = {} THEN s
    ELSE Bind(push_undo(s), LAMBDA s1 :
         [ s1 EXCEPT !.doc.elements =
              IF delta > 0 THEN LayerUpAscending(s1.selected, @, 1)
                           ELSE LayerDownLoop(s1.selected, @, 1) ])

move_selected_layer_by(s, delta) ==
    IF delta = 0 \/ s.selected = {} THEN s
    ELSE Bind(push_undo(s), LAMBDA s1 :
         [ s1 EXCEPT !.doc.elements =
              IF delta > 0 THEN LayerUpLoop(s1.selected, @, Len(@))
                           ELSE LayerDownLoop(s1.selected, @, 1) ])

\* the new binding of a dragged end point whose target is not selected
Rebound(s, before, binding, desired) ==
    IF IsSome(binding) /\ Unwrap(binding).element_id \notin s.selected
    THEN compute_binding_for_target(before, Unwrap(binding).element_id, desired)
    ELSE binding

\* a translation that moves the stored points of a selected line and leaves
\* its bindings as they are
translate_selected_keeps_bindings(s, delta_world) ==
    MapElements(s, LAMBDA e : IF IsSelected(s, e) THEN translate_element(e, delta_world)
                              ELSE e)

translate_selected(s, delta_world) ==
    IF s.selected = {} THEN s
    ELSE LET before == s.doc
             F(e) ==
                IF ~IsSelected(s, e) THEN e
                ELSE IF ~IsLine(e) THEN translate_element(e, delta_world)
                ELSE
                Bind(resolved_line_endpoints_world(before, e.a, e.b,
                                                   e.start_binding, e.end_binding),
                     LAMBDA r :
                Bind(Rebound(s, before, e.start_binding, PAdd(r[1], delta_world)),
                     LAMBDA new_sb :
                Bind(Rebound(s, before, e.end_binding, PAdd(r[2], delta_world)),
                     LAMBDA new_eb :
                     [ e EXCEPT
                         !.a = IF IsNone(new_sb) THEN PAdd(r[1], delta_world) ELSE @,
                         !.b = IF IsNone(new_eb) THEN PAdd(r[2], delta_world) ELSE @,
                         !.start_binding = new_sb,
                         !.end_binding = new_eb ])))
         IN  MapElements(s, F)


try_bind_line_endpoint(s, line_id, endpoint, world_pos, threshold_world) ==
    Bind(topmost_bind_target_id(s.doc, world_pos, threshold_world), LAMBDA target :
    Bind(IF IsNone(target) THEN None
         ELSE compute_binding_for_target(s.doc, Unwrap(target), world_pos),
         LAMBDA binding :
    Bind(ResolveOr(s.doc, binding, world_pos), LAMBDA p :
    Bind(element_index_by_id(s, line_id), LAMBDA idx :
         IF IsNone(idx) \/ ~IsLine(s.doc.elements[Unwrap(idx)]) THEN s
         ELSE IF endpoint = "Start"
         THEN [ s EXCEPT !.doc.elements[Unwrap(idx)].start_binding = binding,
                         !.doc.elements[Unwrap(idx)].a = p ]
         ELSE [ s EXCEPT !.doc.elements[Unwrap(idx)].end_binding = binding,
                         !.doc.elements[Unwrap(idx)].b = p ]))))


\* doubled center: rect.center() for a shape, bounds().center() for a line
element_center_world(s, element_id) ==
    LET e == FindElement(s.doc, element_id)
    IN  IF IsNone(e) THEN None
        ELSE IF IsShape(Unwrap(e)) THEN Some(RectCenter2(Unwrap(e)))
        ELSE Some(PAdd(bounds(Unwrap(e))[1], bounds(Unwrap(e))[2]))

NewElement(id, kind, a, b, sb, eb, st) ==
    [ id |-> id, group_id |-> None, kind |-> kind, a |-> a, b |-> b,
      start_binding |-> sb, end_binding |-> eb, style |-> st, rotation |-> 0 ]

\* an auto-connect that takes its checkpoint before it knows both ends can bind
auto_connect_between_eager(s, a_id, b_id) ==
    Bind(element_center_world(s, a_id), LAMBDA ca :
    Bind(element_center_world(s, b_id), LAMBDA cb :
    IF IsNone(ca) \/ IsNone(cb) THEN s
    ELSE
    Bind(IF Unwrap(cb) = Unwrap(ca) THEN << 1, 0 >> ELSE PSub(Unwrap(cb), Unwrap(ca)),
         LAMBDA dir :
    Bind(BindingAtDoubled(Unwrap(FindElement(s.doc, a_id)),
                          PAdd(Unwrap(ca), << dir[1] * 1000000, dir[2] * 1000000 >>)),
         LAMBDA start_binding :
    Bind(BindingAtDoubled(Unwrap(FindElement(s.doc, b_id)),
                          PSub(Unwrap(cb), << dir[1] * 1000000, dir[2] * 1000000 >>)),
         LAMBDA end_binding :
    Bind(push_undo(s), LAMBDA s1 :
    IF IsNone(start_binding)
    THEN [ s1 EXCEPT !.status = Some("Cannot bind start endpoint to selected object") ]
    ELSE IF IsNone(end_binding)
    THEN [ s1 EXCEPT !.status = Some("Cannot bind end endpoint to selected object") ]
    ELSE set_selection_single(
            [ allocate_id(s1) EXCEPT !.doc.elements =
                Append(@, NewElement(s1.next_id, "Line",
                          Unwrap(resolve_binding_point(s.doc, Unwrap(start_binding))),
                          Unwrap(resolve_binding_point(s.doc, Unwrap(end_binding))),
                          start_binding, end_binding,
                          [ s1.style EXCEPT !.fill = None ])) ],
            s1.next_id)))))))

auto_connect_between(s, a_id, b_id) ==
    Bind(element_center_world(s, a_id), LAMBDA ca :
    Bind(element_center_world(s, b_id), LAMBDA cb :
    IF IsNone(ca) \/ IsNone(cb) THEN s
    ELSE
    \* the probes lie 1,000,000 units along the direction of the centers
    Bind(IF Unwrap(cb) = Unwrap(ca) THEN << 1, 0 >> ELSE PSub(Unwrap(cb), Unwrap(ca)),
         LAMBDA dir :
    Bind(BindingAtDoubled(Unwrap(FindElement(s.doc, a_id)),
                          PAdd(Unwrap(ca), << dir[1] * 1000000, dir[2] * 1000000 >>)),
         LAMBDA start_binding :
    Bind(BindingAtDoubled(Unwrap(FindElement(s.doc, b_id)),
                          PSub(Unwrap(cb), << dir[1] * 1000000, dir[2] * 1000000 >>)),
         LAMBDA end_binding :
    IF IsNone(start_binding)
    THEN [ s EXCEPT !.status = Some("Cannot bind start endpoint to selected object") ]
    ELSE IF IsNone(end_binding)
    THEN [ s EXCEPT !.status = Some("Cannot bind end endpoint to selected object") ]
    ELSE
    Bind(push_undo(s), LAMBDA s1 :
         set_selection_single(
            [ allocate_id(s1) EXCEPT !.doc.elements =
                Append(@, NewElement(s1.next_id, "Line",
                          Unwrap(resolve_binding_point(s.doc, Unwrap(start_binding))),
                          Unwrap(resolve_binding_point(s.doc, Unwrap(end_binding))),
                          start_binding, end_binding,
                          [ s1.style EXCEPT !.fill = None ])) ],
            s1.next_id)))))))


\* a grouping that moves every selected element straight into the new group
group_selected_flat(s) ==
    IF Cardinality(s.selected) < 2 THEN s
    ELSE Bind(push_undo(s), LAMBDA s1 :
         MapElements([ s1 EXCEPT !.next_group_id = @ + 1,
                                 !.doc.groups = Append(@, [ id |-> s1.next_group_id,
                                                            parent_id |-> None ]) ],
                     LAMBDA e : IF e.id \in s1.selected
                                THEN [ e EXCEPT !.group_id = Some(s1.next_group_id) ]
                                ELSE e))
\* a grouping that puts a new root over the selection even when the selection
\* is one root group only
group_selected_over_one_root(s) ==
    IF Cardinality(s.selected) < 2 THEN s
    ELSE
    Bind({ id \in s.selected : IsSome(root_group_of_element(s, id)) }, LAMBDA grouped :
    Bind({ Unwrap(root_group_of_element(s, id)) : id \in grouped }, LAMBDA selected_roots :
    Bind(push_undo(s), LAMBDA s1 :
    Bind([ s1 EXCEPT !.next_group_id = @ + 1,
                     !.doc.groups = Append(@, [ id |-> s1.next_group_id,
                                                parent_id |-> None ]) ],
         LAMBDA s2 :
         LET roots == SortedSeq(selected_roots)
             Reparent[ i \in 0..Len(roots) ] ==
                IF i = 0 THEN s2
                ELSE set_group_parent(Reparent[i - 1], roots[i], Some(s1.next_group_id))
         IN  MapElements(Reparent[Len(roots)],
                         LAMBDA e : IF e.id \in s.selected \ grouped
                                    THEN [ e EXCEPT !.group_id = Some(s1.next_group_id) ]
                                    ELSE e)))))

group_selected(s) ==
    IF Cardinality(s.selected) < 2 THEN s
    ELSE
    Bind({ id \in s.selected : IsSome(root_group_of_element(s, id)) }, LAMBDA grouped :
    Bind({ Unwrap(root_group_of_element(s, id)) : id \in grouped }, LAMBDA selected_roots :
    Bind(s.selected \ grouped, LAMBDA selected_ungrouped :
    IF Cardinality(selected_roots) + Cardinality(selected_ungrouped) < 2 THEN s
    ELSE
    Bind(push_undo(s), LAMBDA s1 :
    Bind([ s1 EXCEPT !.next_group_id = @ + 1,
                     !.doc.groups = Append(@, [ id |-> s1.next_group_id,
                                                parent_id |-> None ]) ],
         LAMBDA s2 :
         LET group_id == s1.next_group_id
             roots == SortedSeq(selected_roots)
             Reparent[ i \in 0..Len(roots) ] ==
                IF i = 0 THEN s2
                ELSE set_group_parent(Reparent[i - 1], roots[i], Some(group_id))
             F(e) == IF e.id \in selected_ungrouped
                     THEN [ e EXCEPT !.group_id = Some(group_id) ] ELSE e
         IN  MapElements(Reparent[Len(roots)], F))))))

\* one turn of the loop of ungroup_selected: the members and the child groups
\* of group g move to its parent
LiftGroup(cur, g) ==
    Bind(group_parent(cur, g), LAMBDA parent :
    Bind(MapElements(cur, LAMBDA e : IF e.group_id = Some(g)
                                     THEN [ e EXCEPT !.group_id = parent ] ELSE e),
         LAMBDA cur1 :
         [ cur1 EXCEPT !.doc.groups =
             [ k \in 1..Len(@) |->
                 IF @[k].parent_id = Some(g) THEN [ @[k] EXCEPT !.parent_id = parent ]
                 ELSE @[k] ] ]))

\* an ungrouping that drops the records of the root groups and leaves their
\* members and child groups pointing at them
ungroup_selected_records_only(s) ==
    IF s.selected = {} THEN s
    ELSE
    Bind({ Unwrap(root_group_of_element(s, id)) :
             id \in { i \in s.selected : IsSome(root_group_of_element(s, i)) } },
         LAMBDA groups :
    IF groups = {} THEN s
    ELSE [ push_undo(s) EXCEPT !.doc.groups = SelectSeq(@, LAMBDA gr : gr.id \notin groups) ])

\* an ungrouping that dissolves the whole subtree of every selected root group
ungroup_selected_all_levels(s) ==
    IF s.selected = {} THEN s
    ELSE
    Bind({ Unwrap(root_group_of_element(s, id)) :
             id \in { i \in s.selected : IsSome(root_group_of_element(s, i)) } },
         LAMBDA groups :
    IF groups = {} THEN s
    ELSE
    Bind(UNION { Range(group_descendants_inclusive(s, g)) : g \in groups }, LAMBDA all :
         MapElements([ push_undo(s) EXCEPT
                         !.doc.groups = SelectSeq(@, LAMBDA gr : gr.id \notin all) ],
                     LAMBDA e : IF IsSome(e.group_id) /\ Unwrap(e.group_id) \in all
                                THEN [ e EXCEPT !.group_id = None ] ELSE e)))

ungroup_selected(s) ==
    IF s.selected = {} THEN s
    ELSE
    Bind({ Unwrap(root_group_of_element(s, id)) :
             id \in { i \in s.selected : IsSome(root_group_of_element(s, i)) } },
         LAMBDA groups :
    IF groups = {} THEN s
    ELSE
    Bind(SortedSeq(groups), LAMBDA gs :
         LET Lift[ i \in 0..Len(gs) ] ==
                IF i = 0 THEN push_undo(s) ELSE LiftGroup(Lift[i - 1], gs[i])
         IN  normalize_groups(
                [ Lift[Len(gs)] EXCEPT
                    !.doc.groups = SelectSeq(@, LAMBDA gr : gr.id \notin groups) ])))


\* a duplication whose clones stay in the group of their original
duplicate_selected_in_group(s) ==
    IF s.selected = {} THEN s
    ELSE
    Bind(push_undo(s), LAMBDA s1 :
    Bind(SelectSeq(s1.doc.elements, LAMBDA e : IsSelected(s1, e)), LAMBDA src :
    Bind([ i \in 1..Len(src) |->
             translate_element([ src[i] EXCEPT !.id = s1.next_id + i - 1 ], << 12, 12 >>) ],
         LAMBDA clones :
         [ s1 EXCEPT !.next_id = @ + Len(src),
                     !.doc.elements = @ \o clones,
                     !.selected = { clones[i].id : i \in 1..Len(clones) },
                     !.editing_text_id = None ])))

duplicate_selected(s) ==
    IF s.selected = {} THEN s
    ELSE
    Bind(push_undo(s), LAMBDA s1 :
    Bind(SelectSeq(s1.doc.elements, LAMBDA e : IsSelected(s1, e)), LAMBDA src :
    Bind([ i \in 1..Len(src) |->
             translate_element(
                 [ src[i] EXCEPT !.id = s1.next_id + i - 1, !.group_id = None ],
                 << 12, 12 >>) ],
         LAMBDA clones :
         [ s1 EXCEPT !.next_id = @ + Len(src),
                     !.doc.elements = @ \o clones,
                     !.selected = { clones[i].id : i \in 1..Len(clones) },
                     !.editing_text_id = None ])))


\* the stack loop of copy_selected: the groups of the elements and their ancestors
RECURSIVE AncestorClosure(_, _)
AncestorClosure(s, gids) ==
    LET more == { Unwrap(group_parent(s, g)) :
                    g \in { u \in gids : IsSome(group_parent(s, u)) } }
    IN  IF more \subseteq gids THEN gids ELSE AncestorClosure(s, gids \cup more)

\* a copy that keeps the groups of the selected elements and not their ancestors
copy_selected_direct_groups(s) ==
    IF s.selected = {} THEN [ s EXCEPT !.status = Some("Nothing selected to copy") ]
    ELSE
    Bind(SelectSeq(s.doc.elements, LAMBDA e : IsSelected(s, e)), LAMBDA elements :
         [ s EXCEPT !.status = Some("Copied"),
                    !.clipboard =
                        Some([ elements |-> elements,
                               groups |-> SelectSeq(s.doc.groups,
                                   LAMBDA g : \E i \in 1..Len(elements) :
                                                 elements[i].group_id = Some(g.id)) ]) ])

copy_selected(s) ==
    IF s.selected = {} THEN [ s EXCEPT !.status = Some("Nothing selected to copy") ]
    ELSE
    Bind(SelectSeq(s.doc.elements, LAMBDA e : IsSelected(s, e)), LAMBDA elements :
    Bind(AncestorClosure(s, { Unwrap(elements[i].group_id) :
                                i \in { j \in 1..Len(elements) :
                                          IsSome(elements[j].group_id) } }),
         LAMBDA group_ids :
         [ s EXCEPT !.status = Some("Copied"),
                    !.clipboard =
                        Some([ elements |-> elements,
                               groups |-> SelectSeq(s.doc.groups,
                                                    LAMBDA g : g.id \in group_ids) ]) ]))


cut_selected(s) == delete_selected(copy_selected(s))

\* HashMap::entry(id).or_insert_with: the first occurrence of an id gets the next number
MapIds(items, first) ==
    LET ids == { items[i].id : i \in 1..Len(items) }
        Firsts == { i \in 1..Len(items) : \A j \in 1..(i - 1) : items[j].id # items[i].id }
    IN  [ id \in ids |->
            first + Cardinality({ i \in Firsts : i < FirstIndex(items, id) }) ]

\* HashMap::insert per element: allocate_id for every entry, the last one wins
MapElementIds(items, first) ==
    LET ids == { items[i].id : i \in 1..Len(items) }
    IN  [ id \in ids |->
            first - 1 + CHOOSE i \in 1..Len(items) :
                          items[i].id = id /\ \A j \in (i + 1)..Len(items) : items[j].id # id ]

\* faulty variant of the remapping that leaves the binding on the copied-from element
\* (sensitivity of PasteNonCollision)
RemapBinding_keeps_target(binding, id_map) == binding

RemapBinding(binding, id_map) ==
    IF IsNone(binding) THEN None
    ELSE IF Unwrap(binding).element_id \in DOMAIN id_map
    THEN Some([ Unwrap(binding) EXCEPT !.element_id = id_map[@] ])
    ELSE None

\* target: context_world_pos.or(last_pointer_world), the pointer position known last
paste_from_payload(s, payload, target) ==
    IF payload.elements = << >> THEN s
    ELSE
    Bind(push_undo(s), LAMBDA s1 :
    Bind(MapIds(payload.groups, s1.next_group_id), LAMBDA group_map :
    Bind(MapElementIds(payload.elements, s1.next_id), LAMBDA id_map :
    Bind({ bounds(payload.elements[i])[1] : i \in 1..Len(payload.elements) }, LAMBDA mins :
    Bind(IF IsSome(target)
         THEN PSub(Unwrap(target),
                   << CHOOSE x \in { m[1] : m \in mins } : \A m \in mins : x <= m[1],
                      CHOOSE y \in { m[2] : m \in mins } : \A m \in mins : y <= m[2] >>)
         ELSE << 24, 24 >>,
         LAMBDA delta :
    Bind([ i \in 1..Len(payload.groups) |->
             [ id |-> group_map[payload.groups[i].id],
               parent_id |->
                  IF IsSome(payload.groups[i].parent_id)
                     /\ Unwrap(payload.groups[i].parent_id) \in DOMAIN group_map
                  THEN Some(group_map[Unwrap(payload.groups[i].parent_id)])
                  ELSE None ] ],
         LAMBDA new_groups :
    Bind([ i \in 1..Len(payload.elements) |->
             translate_element(
                [ payload.elements[i] EXCEPT
                    !.id = id_map[@],
                    !.group_id = IF IsSome(@) /\ Unwrap(@) \in DOMAIN group_map
                                 THEN Some(group_map[Unwrap(@)])
                                 ELSE None,
                    !.start_binding = RemapBinding(@, id_map),
                    !.end_binding = RemapBinding(@, id_map) ],
                delta) ],
         LAMBDA new_elements :
         normalize_groups(
            [ s1 EXCEPT !.next_group_id = @ + Cardinality(DOMAIN group_map),
                        !.next_id = @ + Len(payload.elements),
                        !.doc.groups = @ \o new_groups,
                        !.doc.elements = @ \o new_elements,
                        !.selected = { new_elements[i].id : i \in 1..Len(new_elements) },
                        !.editing_text_id = None ]))))))))


paste(s, target) ==
    IF IsNone(s.clipboard) THEN [ s EXCEPT !.status = Some("Nothing in clipboard to paste") ]
    ELSE paste_from_payload([ s EXCEPT !.status = Some("Pasted") ],
                            Unwrap(s.clipboard), target)

(***************************************************************************)
(* Pointer gestures on the canvas (update.rs) and the selection handles    *)
(* (interaction.rs).  The view is at its default zoom 1.0, so the hit      *)
(* threshold 6.0 / zoom is 6 world units; snap_to_grid is off.             *)
(***************************************************************************)
threshold_world == 6
min_size_world == 8

Dot(p, q) == p[1] * q[1] + p[2] * q[2]

\* distance_to_segment(p, a, b) <= limit, compared on the squares
SegmentWithin(p, a, b, limit) ==
    LET ab == PSub(b, a)
        ap == PSub(p, a)
        bp == PSub(p, b)
        m == Dot(ab, ab)
        n == Dot(ap, ab)
    IN  IF m = 0 \/ n <= 0 THEN Dot(ap, ap) <= limit * limit
        ELSE IF n >= m THEN Dot(bp, bp) <= limit * limit
        ELSE Dot(ap, ap) * m - n * n <= limit * limit * m

hit_test_element(d, e, world_pos, thr) ==
    IF IsShape(e) THEN hit_test_rotated_rect(e, world_pos, thr)
    ELSE LET r == resolved_line_endpoints_world(d, e.a, e.b, e.start_binding, e.end_binding)
         IN  SegmentWithin(world_pos, r[1], r[2], thr + e.style.width)

topmost_hit(s, world_pos, thr) ==
    Bind({ i \in 1..Len(s.doc.elements) :
             hit_test_element(s.doc, s.doc.elements[i], world_pos, thr) },
         LAMBDA hits :
            IF hits = {} THEN None
            ELSE Some(s.doc.elements[CHOOSE i \in hits : \A j \in hits : j <= i].id))


\* if pressed: the match on self.tool
press(s, tool, world_pos, multi_select) ==
    Bind([ s EXCEPT !.drag_transform_recorded = FALSE ], LAMBDA s0 :
    Bind(topmost_hit(s0, world_pos, threshold_world), LAMBDA hit :
         IF tool = "Select"
         THEN IF IsSome(hit)
              THEN [ (IF multi_select THEN toggle_selection(s0, Unwrap(hit))
                      ELSE IF Unwrap(hit) \notin s0.selected
                           THEN set_selection_single(s0, Unwrap(hit)) ELSE s0)
                     EXCEPT !.in_progress = None ]
              ELSE [ (IF multi_select THEN s0 ELSE clear_selection(s0))
                     EXCEPT !.in_progress = Some([ kind |-> "SelectBox",
                                                   start |-> world_pos,
                                                   current |-> world_pos ]) ]
         ELSE [ s0 EXCEPT !.in_progress =
                   Some([ kind |-> IF tool = "Rectangle" THEN "DragShape" ELSE "DragLine",
                          start |-> world_pos, current |-> world_pos ]) ]))


\* a drag of the selection that takes a checkpoint on every frame
dragged_every_frame(s, world_pos, drag_delta) ==
    IF IsSome(s.in_progress)
    THEN [ s EXCEPT !.in_progress = Some([ Unwrap(@) EXCEPT !.current = world_pos ]) ]
    ELSE IF s.selected # {}
    THEN translate_selected([ push_undo(s) EXCEPT !.drag_transform_recorded = TRUE ],
                            drag_delta)
    ELSE s

\* if response.dragged(): move the gesture, or drag the selection
dragged(s, world_pos, drag_delta) ==
    IF IsSome(s.in_progress)
    THEN [ s EXCEPT !.in_progress = Some([ Unwrap(@) EXCEPT !.current = world_pos ]) ]
    ELSE IF s.selected # {}
    THEN translate_selected(
            IF ~s.drag_transform_recorded
            THEN [ push_undo(s) EXCEPT !.drag_transform_recorded = TRUE ] ELSE s,
            drag_delta)
    ELSE s

AddElement(s, kind, a, b, sb, eb) ==
    Bind(push_undo(s), LAMBDA s1 :
         set_selection_single(
            [ allocate_id(s1) EXCEPT !.doc.elements =
                 Append(@, NewElement(s1.next_id, kind, a, b, sb, eb, s1.style)) ],
            s1.next_id))

select_box(s, start, current) ==
    LET box == << << Min2(start[1], current[1]), Min2(start[2], current[2]) >>,
                  << Max2(start[1], current[1]), Max2(start[2], current[2]) >> >>
    IN  Bind({ s.doc.elements[i].id :
                 i \in { j \in 1..Len(s.doc.elements) :
                           Intersects(box, bounds(s.doc.elements[j])) } },
             LAMBDA sel0 :
                [ s EXCEPT !.selected =
                    sel0 \cup UNION { Range(group_members_recursive(s, g)) :
                                        g \in { Unwrap(root_group_of_element(s, id)) :
                                                  id \in { i \in sel0 :
                                                     IsSome(root_group_of_element(s, i)) } } } ])

\* the DragLine arm: a line from start to current, each end bound to the shape under it


\* if released: in_progress.take() and its match
AddLine(s, start, current) ==
    Bind(topmost_bind_target_id(s.doc, start, threshold_world), LAMBDA ts :
    Bind(topmost_bind_target_id(s.doc, current, threshold_world), LAMBDA te :
    Bind(IF IsNone(ts) THEN None ELSE compute_binding_for_target(s.doc, Unwrap(ts), start),
         LAMBDA sb :
    Bind(IF IsNone(te) THEN None ELSE compute_binding_for_target(s.doc, Unwrap(te), current),
         LAMBDA eb :
         AddElement(s, "Line", ResolveOr(s.doc, sb, start), ResolveOr(s.doc, eb, current),
                    sb, eb)))))

released(s) ==
    LET s0 == [ s EXCEPT !.drag_transform_recorded = FALSE, !.in_progress = None ]
    IN  IF IsNone(s.in_progress) THEN s0
        ELSE
        LET g == Unwrap(s.in_progress)
        IN  IF g.kind = "DragShape"
            THEN LET lo == << Min2(g.start[1], g.current[1]), Min2(g.start[2], g.current[2]) >>
                     hi == << Max2(g.start[1], g.current[1]), Max2(g.start[2], g.current[2]) >>
                 IN  IF hi[1] > lo[1] /\ hi[2] > lo[2]
                     THEN AddElement(s0, "Rect", lo, hi, None, None)
                     ELSE s0
            ELSE IF g.kind = "DragLine"
            THEN IF Dot(PSub(g.current, g.start), PSub(g.current, g.start))
                        >= threshold_world * threshold_world
                 THEN AddLine(s0, g.start, g.current)
                 ELSE s0
            ELSE select_box(s0, g.start, g.current)


\* double click with the Select tool on a shape: start editing its label
double_clicked(s, world_pos) ==
    Bind(topmost_hit(s, world_pos, threshold_world), LAMBDA hit :
         IF IsSome(hit) /\ IsShape(Unwrap(FindElement(s.doc, Unwrap(hit))))
         THEN [ set_selection_single(s, Unwrap(hit)) EXCEPT !.editing_text_id = hit ]
         ELSE s)


\* Escape: back to the Select tool, the gesture and the transform are dropped
escape(s) == [ s EXCEPT !.in_progress = None, !.active_transform = None ]

\* the Properties panel with no single selection: a changed default style
edit_style(s, st) ==
    IF st = s.style THEN s ELSE [ push_undo(s) EXCEPT !.style = st ]

\* angles are kept in quarter turns (the y axis points down): rotate_vec2 by
\* q quarter turns
rotate_vec2(v, q) ==
    CASE q % 4 = 0 -> v
      [] q % 4 = 1 -> << 0 - v[2], v[1] >>
      [] q % 4 = 2 -> << 0 - v[1], 0 - v[2] >>
      [] q % 4 = 3 -> << v[2], 0 - v[1] >>

\* v.y.atan2(v.x) in quarter turns, for a vector along an axis
OnAxis(v) == v[1] = 0 \/ v[2] = 0
atan2(v) ==
    CASE v[2] = 0 /\ v[1] >= 0 -> 0
      [] v[1] = 0 /\ v[2] > 0 -> 1
      [] v[2] = 0 /\ v[1] < 0 -> 2
      [] v[1] = 0 /\ v[2] < 0 -> 0 - 1

\* the pointer seen from the doubled center of the bounds of element e
FromCenter2(e, p) == PSub(PAdd(p, p), PAdd(bounds(e)[1], bounds(e)[2]))

\* the frame of an active transform: the element follows the pointer
\* the eight resize handles of a shape; the corners keep the aspect with shift
ResizeHandles == { "NW", "N", "NE", "W", "E", "SW", "S", "SE" }
CornerHandles == { "NW", "NE", "SW", "SE" }

\* the start rect with the sides of the handle moved by delta_local
HandleMoved(handle, start_rect, delta_local) ==
    << << start_rect[1][1] + (IF handle \in { "NW", "W", "SW" } THEN delta_local[1] ELSE 0),
          start_rect[1][2] + (IF handle \in { "NW", "N", "NE" } THEN delta_local[2] ELSE 0) >>,
       << start_rect[2][1] + (IF handle \in { "NE", "E", "SE" } THEN delta_local[1] ELSE 0),
          start_rect[2][2] + (IF handle \in { "SW", "S", "SE" } THEN delta_local[2] ELSE 0) >> >>

\* (w / h) > ratio with ratio = w0 / h0 > 0 and h nonzero
WiderThan(w, h, w0, h0) == IF h > 0 THEN w * h0 > w0 * h ELSE w * h0 < w0 * h

\* the rect of a corner handle with the aspect of the start rect: the side
\* opposite the handle stays, w = h * ratio or h = w / ratio
AspectLocked(handle, r, start_rect) ==
    Bind(<< r[2][1] - r[1][1], r[2][2] - r[1][2],
            Abs(start_rect[2][1] - start_rect[1][1]),
            Abs(start_rect[2][2] - start_rect[1][2]) >>, LAMBDA m :
    IF handle \notin CornerHandles \/ m[3] <= 0 \/ m[4] <= 0 \/ m[2] = 0 THEN r
    ELSE
    Bind(IF WiderThan(m[1], m[2], m[3], m[4])
         THEN << TDiv(m[2] * m[3], m[4]), m[2] >>
         ELSE << m[1], TDiv(m[1] * m[4], m[3]) >>, LAMBDA wh :
    CASE handle = "NW" -> << << r[2][1] - wh[1], r[2][2] - wh[2] >>, r[2] >>
      [] handle = "NE" -> << << r[1][1], r[2][2] - wh[2] >>, << r[1][1] + wh[1], r[2][2] >> >>
      [] handle = "SW" -> << << r[2][1] - wh[1], r[1][2] >>, << r[2][1], r[1][2] + wh[2] >> >>
      [] handle = "SE" -> << r[1], << r[1][1] + wh[1], r[1][2] + wh[2] >> >>))

\* a clamp that keeps the min side and moves the max side
ClampAxis_from_min(lo, hi) ==
    IF hi - lo < min_size_world THEN << lo, lo + min_size_world >> ELSE << lo, hi >>

\* an extent shorter than min_size_world becomes min_size_world about its midpoint
ClampAxis(lo, hi) ==
    IF hi - lo < min_size_world
    THEN << TDiv(lo + hi, 2) - TDiv(min_size_world, 2),
            TDiv(lo + hi, 2) + TDiv(min_size_world, 2) >>
    ELSE << lo, hi >>

\* the Resize arm: move the sides, lock the aspect, clamp, RectF::from_min_max
resize_rect(handle, start_rect, delta_local, shift) ==
    Bind(HandleMoved(handle, start_rect, delta_local), LAMBDA moved :
    Bind(IF shift THEN AspectLocked(handle, moved, start_rect) ELSE moved, LAMBDA r :
    Bind(<< ClampAxis(r[1][1], r[2][1]), ClampAxis(r[1][2], r[2][2]) >>, LAMBDA c :
         << << Min2(c[1][1], c[1][2]), Min2(c[2][1], c[2][2]) >>,
            << Max2(c[1][1], c[1][2]), Max2(c[2][1], c[2][2]) >> >>)))

ApplyTransform(s, selected_id, i, pointer_world, shift) ==
    LET el == s.doc.elements[i]
        tr == s.active_transform
    IN
    IF IsNone(tr) THEN s
    ELSE IF Unwrap(tr).element_id # selected_id
    THEN [ s EXCEPT !.active_transform = None ]
    ELSE IF IsNone(pointer_world) THEN s
    ELSE IF Unwrap(tr).kind = "Rotate"
    THEN [ s EXCEPT !.doc.elements[i].rotation =
             Unwrap(tr).start_rotation
               + (atan2(FromCenter2(el, Unwrap(pointer_world))) - Unwrap(tr).start_angle) ]
    ELSE IF Unwrap(tr).kind = "Resize"
    THEN IF IsShape(el)
         THEN Bind(resize_rect(Unwrap(tr).handle, Unwrap(tr).start_rect,
                               rotate_vec2(PSub(Unwrap(pointer_world),
                                                Unwrap(tr).start_pointer_world),
                                           0 - Unwrap(tr).start_rotation),
                               shift),
                   LAMBDA r : [ s EXCEPT !.doc.elements[i].a = r[1],
                                         !.doc.elements[i].b = r[2] ])
         ELSE [ s EXCEPT !.active_transform = None ]
    ELSE LET delta == PSub(Unwrap(pointer_world), Unwrap(tr).start_pointer_world)
             which == Unwrap(tr).endpoint
         IN  IF IsLine(el)
             THEN [ s EXCEPT
                      !.doc.elements[i].a =
                          IF which = "Start" THEN PAdd(Unwrap(tr).start_a, delta)
                                             ELSE Unwrap(tr).start_a,
                      !.doc.elements[i].b =
                          IF which = "End" THEN PAdd(Unwrap(tr).start_b, delta)
                                           ELSE Unwrap(tr).start_b,
                      !.doc.elements[i].start_binding =
                          IF which = "Start" THEN None ELSE @,
                      !.doc.elements[i].end_binding =
                          IF which = "End" THEN None ELSE @ ]
             ELSE [ s EXCEPT !.active_transform = None ]

\* handles that start a rotation whatever the kind of the selected element
HandleEvents_any_kind(s1, selected_id, i, pointer_world, ev) ==
    IF ev.type = "start" /\ IsSome(pointer_world)
    THEN [ push_undo(s1) EXCEPT !.active_transform =
             Some([ kind |-> "Rotate", element_id |-> selected_id,
                    start_rotation |-> s1.doc.elements[i].rotation,
                    start_angle |-> 0 ]) ]
    ELSE IF ev.type = "stop" THEN [ s1 EXCEPT !.active_transform = None ]
    ELSE s1

\* the handles of the selected element: drag_started and drag_stopped
HandleEvents(s1, selected_id, i, pointer_world, ev) ==
    LET e1 == s1.doc.elements[i]
    IN
    IF ev.type = "none" THEN s1
    ELSE IF IsShape(e1) /\ ev.handle \in { "resize" } \cup ResizeHandles
    THEN IF ev.type = "start" /\ IsSome(pointer_world)
         THEN [ push_undo(s1) EXCEPT !.active_transform =
                  Some([ kind |-> "Resize", element_id |-> selected_id,
                         handle |-> IF ev.handle = "resize" THEN "SE" ELSE ev.handle,
                         start_rect |-> << e1.a, e1.b >>,
                         start_rotation |-> e1.rotation,
                         start_pointer_world |-> Unwrap(pointer_world) ]) ]
         ELSE IF ev.type = "stop"
         THEN [ s1 EXCEPT !.active_transform = None ]
         ELSE s1
    ELSE IF IsShape(e1) /\ ev.handle = "rotate"
    THEN IF ev.type = "start" /\ IsSome(pointer_world)
         THEN [ push_undo(s1) EXCEPT !.active_transform =
                  Some([ kind |-> "Rotate", element_id |-> selected_id,
                         start_rotation |-> e1.rotation,
                         start_angle |-> atan2(FromCenter2(e1, Unwrap(pointer_world))) ]) ]
         ELSE IF ev.type = "stop"
         THEN [ s1 EXCEPT !.active_transform = None ]
         ELSE s1
    ELSE IF IsLine(e1) /\ ev.handle \in { "Start", "End" }
    THEN LET r == resolved_line_endpoints_world(s1.doc, e1.a, e1.b,
                                                e1.start_binding, e1.end_binding)
         IN  IF ev.type = "start" /\ IsSome(pointer_world)
             THEN [ push_undo(s1) EXCEPT !.active_transform =
                      Some([ kind |-> "LineEndpoint", element_id |-> selected_id,
                             endpoint |-> ev.handle, start_a |-> r[1],
                             start_b |-> r[2],
                             start_pointer_world |-> Unwrap(pointer_world) ]) ]
             ELSE IF ev.type = "stop"
             THEN [ (IF IsSome(pointer_world)
                     THEN try_bind_line_endpoint(s1, selected_id, ev.handle,
                              Unwrap(pointer_world), threshold_world)
                     ELSE s1)
                    EXCEPT !.active_transform = None ]
             ELSE s1
    ELSE s1

\* ev: what the handles and the keyboard report in this frame, [shift, type,
\* handle] with shift the state of the modifier, type "none", "start"
\* (drag_started) or "stop" (drag_stopped) and handle one of ResizeHandles or
\* "resize" (the SE corner of a shape), "rotate" (the rotate handle of a
\* shape), "Start" or "End" (an end point of a line);
\* pointer_world is Some(p) or None
interact_selection_handles(s, pointer_world, ev) ==
    IF Cardinality(s.selected) # 1 THEN [ s EXCEPT !.active_transform = None ]
    ELSE
    Bind(CHOOSE id \in s.selected : TRUE, LAMBDA selected_id :
    Bind(element_index_by_id(s, selected_id), LAMBDA idx :
         IF IsNone(idx) THEN [ s EXCEPT !.active_transform = None ]
         ELSE HandleEvents(ApplyTransform(s, selected_id, Unwrap(idx), pointer_world, ev.shift),
                           selected_id, Unwrap(idx), pointer_world, ev)))

(***************************************************************************)
(* doc_ops.rs: align, distribute and abut.  The items are the selected     *)
(* elements in document order with their bounds; a coordinate of a centre  *)
(* is kept doubled (min + max).                                            *)
(***************************************************************************)
Items(d, sel) == { i \in 1..Len(d.elements) : d.elements[i].id \in sel }
Center2(e, ax) == bounds(e)[1][ax] + bounds(e)[2][ax]
AxisDelta(ax, v) == IF ax = 1 THEN << v, 0 >> ELSE << 0, v >>
\* the place of item i after the stable sort_by on key (0 for the first)
SortRank(keys, items, i) ==
    Cardinality({ j \in items : keys[j] < keys[i] \/ (keys[j] = keys[i] /\ j < i) })
TranslateItems(d, items, ax, delta) ==
    [ d EXCEPT !.elements =
        [ i \in 1..Len(d.elements) |->
            IF i \in items /\ FirstIndex(d.elements, d.elements[i].id) = i
            THEN translate_element(d.elements[i], AxisDelta(ax, delta[i]))
            ELSE d.elements[i] ] ]

align_selected(d, sel, mode) ==
    IF Cardinality(sel) < 2 \/ Cardinality(Items(d, sel)) < 2
    THEN d
    ELSE LET items == Items(d, sel)
             ax == IF mode \in { "Left", "HCenter", "Right" } THEN 1 ELSE 2
             b == [ i \in items |-> bounds(d.elements[i]) ]
             lo == CHOOSE v \in { b[i][1][ax] : i \in items } :
                       \A j \in items : v <= b[j][1][ax]
             hi == CHOOSE v \in { b[i][2][ax] : i \in items } :
                       \A j \in items : v >= b[j][2][ax]
             delta == [ i \in items |->
                          IF mode \in { "Left", "Top" } THEN lo - b[i][1][ax]
                          ELSE IF mode \in { "Right", "Bottom" } THEN hi - b[i][2][ax]
                          ELSE TDiv((lo + hi) - (b[i][1][ax] + b[i][2][ax]), 2) ]
         IN  TranslateItems(d, items, ax, delta)

\* a distribute that stacks every item on the first centre
distribute_selected_onto_first(d, sel, mode) ==
    IF Cardinality(sel) < 3 \/ Cardinality(Items(d, sel)) < 3
    THEN d
    ELSE LET items == Items(d, sel)
             ax == IF mode = "Horizontal" THEN 1 ELSE 2
             c == [ i \in items |-> Center2(d.elements[i], ax) ]
             first == CHOOSE v \in { c[i] : i \in items } : \A j \in items : v <= c[j]
             delta == [ i \in items |-> TDiv(first - c[i], 2) ]
         IN  TranslateItems(d, items, ax, delta)
distribute_selected(d, sel, mode) ==
    IF Cardinality(sel) < 3 \/ Cardinality(Items(d, sel)) < 3
    THEN d
    ELSE LET items == Items(d, sel)
             n == Cardinality(items)
             ax == IF mode = "Horizontal" THEN 1 ELSE 2
             c == [ i \in items |-> Center2(d.elements[i], ax) ]
             first == CHOOSE v \in { c[i] : i \in items } : \A j \in items : v <= c[j]
             last == CHOOSE v \in { c[i] : i \in items } : \A j \in items : v >= c[j]
             \* target - center, with step = (last - first) / (n - 1)
             delta == [ i \in items |->
                          TDiv(first * (n - 1) + (last - first) * SortRank(c, items, i)
                                   - c[i] * (n - 1),
                               2 * (n - 1)) ]
         IN  TranslateItems(d, items, ax, delta)

abut_selected(d, sel, mode) ==
    IF Cardinality(sel) < 2 \/ Cardinality(Items(d, sel)) < 2
    THEN d
    ELSE LET items == Items(d, sel)
             ax == IF mode = "Horizontal" THEN 1 ELSE 2
             b == [ i \in items |-> bounds(d.elements[i]) ]
             lo == [ i \in items |-> b[i][1][ax] ]
             first == CHOOSE v \in { lo[i] : i \in items } : \A j \in items : v <= lo[j]
             EarlierWidths[S \in SUBSET items] ==
                 IF S = {} THEN 0
                 ELSE LET j == CHOOSE j \in S : TRUE
                      IN  (b[j][2][ax] - b[j][1][ax]) + EarlierWidths[S \ { j }]
             delta == [ i \in items |->
                          first + EarlierWidths[{ j \in items :
                                                    SortRank(lo, items, j) < SortRank(lo, items, i) }]
                              - lo[i] ]
         IN  TranslateItems(d, items, ax, delta)

AlignModes == { "Left", "HCenter", "Right", "Top", "VCenter", "Bottom" }
\* an execute that takes the checkpoint after the operation
execute_arrange_checkpoint_late(s, command, mode) ==
    push_undo([ s EXCEPT !.doc =
        IF command = "Align" THEN align_selected(s.doc, s.selected, mode)
        ELSE IF command = "Distribute" THEN distribute_selected(s.doc, s.selected, mode)
        ELSE abut_selected(s.doc, s.selected, mode) ])
\* CommandPalette::execute, the arrangement commands
execute_arrange(s, command, mode) ==
    Bind(push_undo(s), LAMBDA s1 :
        [ s1 EXCEPT !.doc =
            IF command = "Align" THEN align_selected(s1.doc, s1.selected, mode)
            ELSE IF command = "Distribute" THEN distribute_selected(s1.doc, s1.selected, mode)
            ELSE abut_selected(s1.doc, s1.selected, mode) ])

(***************************************************************************)
(* mod.rs: the View.  pan_screen and zoom are f32; the model computes with  *)
(* exact fractions << numerator, denominator >>, denominator positive, in   *)
(* lowest terms, so that a round trip is equal only when the arithmetic     *)
(* makes it so.                                                             *)
(***************************************************************************)
RECURSIVE GCD(_, _)
GCD(a, b) == IF b = 0 THEN a ELSE GCD(b, a % b)
Rat(n, d) == << n \div GCD(Abs(n), d), d \div GCD(Abs(n), d) >>
RAdd(x, y) == Rat(x[1] * y[2] + y[1] * x[2], x[2] * y[2])
RSub(x, y) == Rat(x[1] * y[2] - y[1] * x[2], x[2] * y[2])
RMul(x, y) == Rat(x[1] * y[1], x[2] * y[2])
\* x / y for y > 0
RDiv(x, y) == Rat(x[1] * y[2], x[2] * y[1])
RLess(x, y) == x[1] * y[2] < y[1] * x[2]
\* f32::clamp
RClamp(x, lo, hi) == IF RLess(x, lo) THEN lo ELSE IF RLess(hi, x) THEN hi ELSE x
VAdd(p, q) == << RAdd(p[1], q[1]), RAdd(p[2], q[2]) >>
VSub(p, q) == << RSub(p[1], q[1]), RSub(p[2], q[2]) >>

ZoomMin == << 1, 10 >>
ZoomMax == << 8, 1 >>
\* View::default
DefaultView == [ pan_screen |-> << << 0, 1 >>, << 0, 1 >> >>, zoom |-> << 1, 1 >> ]

world_to_screen(v, origin, world) ==
    VAdd(VAdd(origin, v.pan_screen), << RMul(world[1], v.zoom), RMul(world[2], v.zoom) >>)

screen_to_world(v, origin, screen) ==
    Bind(VSub(VSub(screen, origin), v.pan_screen), LAMBDA p :
         << RDiv(p[1], v.zoom), RDiv(p[2], v.zoom) >>)

\* a zoom that moves the pan for the requested zoom and clamps afterwards
zoom_about_screen_point_clamped_late(v, origin, screen_point, zoom_delta) ==
    Bind(screen_to_world(v, origin, screen_point), LAMBDA before :
    Bind([ v EXCEPT !.zoom = RMul(v.zoom, zoom_delta) ], LAMBDA v1 :
    Bind(world_to_screen(v1, origin, before), LAMBDA after_screen :
         [ v1 EXCEPT !.pan_screen = VAdd(@, VSub(screen_point, after_screen)),
                     !.zoom = RClamp(@, ZoomMin, ZoomMax) ])))
zoom_about_screen_point(v, origin, screen_point, zoom_delta) ==
    Bind(screen_to_world(v, origin, screen_point), LAMBDA before :
    Bind([ v EXCEPT !.zoom = RClamp(RMul(v.zoom, zoom_delta), ZoomMin, ZoomMax) ],
         LAMBDA v1 :
    Bind(world_to_screen(v1, origin, before), LAMBDA after_screen :
         [ v1 EXCEPT !.pan_screen = VAdd(@, VSub(screen_point, after_screen)) ])))

(***************************************************************************)
(* Initial states.  The editor starts empty (DiagramApp::new); the other   *)
(* initial states are the states the editor is in after the user has       *)
(* drawn a small scene, computed by the handlers themselves.               *)
(***************************************************************************)
DrawRect(s, p, q) ==
    Only({ released(s2) : s2 \in { dragged(s1, q, << 0, 0 >>) :
                                     s1 \in { press(s, "Rectangle", p, FALSE) } } })
DrawLine(s, p, q) ==
    Only({ released(s2) : s2 \in { dragged(s1, q, << 0, 0 >>) :
                                     s1 \in { press(s, "Line", p, FALSE) } } })
SelectAllOf(s) == [ s EXCEPT !.selected = @ \cup ElementIds(s.doc) ]

\* one rectangle, and two rectangles
OneRect == DrawRect(NewApp, << 0, 0 >>, << 10, 10 >>)
TwoRects == Only({ DrawRect(s, << 30, 0 >>, << 40, 10 >>) : s \in { OneRect } })

\* two rectangles joined by a line bound to both
SceneBound == Only({ DrawLine(s, << 10, 5 >>, << 30, 5 >>) : s \in { TwoRects } })

\* a rectangle and a line bound to it, grouped
SceneGroupedLine ==
    Only({ group_selected(s2) :
             s2 \in { SelectAllOf(s1) :
                        s1 \in { DrawLine(s, << 10, 5 >>, << 60, 5 >>) : s \in { OneRect } } } })

\* two grouped rectangles and a third, ungrouped one
SceneGroup ==
    Only({ DrawRect(s2, << 60, 0 >>, << 70, 10 >>) :
             s2 \in { group_selected(s1) : s1 \in { SelectAllOf(s) : s \in { TwoRects } } } })

\* the group of SceneGroup nested in a second group with the third rectangle
SceneNested ==
    Only({ group_selected(s1) : s1 \in { SelectAllOf(s) : s \in { SceneGroup } } })

\* three rectangles in a row, with centres at x = 0, 30 and 100
SceneRow ==
    Only({ DrawRect(s2, << 95, 0 >>, << 105, 10 >>) :
             s2 \in { DrawRect(s1, << 25, 0 >>, << 35, 10 >>) :
                        s1 \in { DrawRect(NewApp, << -5, 0 >>, << 5, 10 >>) } } })

Scenes == { NewApp, SceneBound, SceneGroupedLine, SceneGroup, SceneNested }

SetApp(s) ==
    /\ doc' = s.doc
    /\ selected' = s.selected
    /\ next_id' = s.next_id
    /\ next_group_id' = s.next_group_id
    /\ style' = s.style
    /\ in_progress' = s.in_progress
    /\ active_transform' = s.active_transform
    /\ editing_text_id' = s.editing_text_id
    /\ status' = s.status
    /\ history' = s.history
    /\ future' = s.future
    /\ clipboard' = s.clipboard
    /\ drag_transform_recorded' = s.drag_transform_recorded

InitWith(S, V) ==
    \E s \in S : \E v \in V :
        /\ view = v
        /\ zoomed = None
        /\ probed = None
        /\ doc = s.doc
        /\ selected = s.selected
        /\ next_id = s.next_id
        /\ next_group_id = s.next_group_id
        /\ style = s.style
        /\ in_progress = s.in_progress
        /\ active_transform = s.active_transform
        /\ editing_text_id = s.editing_text_id
        /\ status = s.status
        /\ history = s.history
        /\ future = s.future
        /\ clipboard = s.clipboard
        /\ drag_transform_recorded = s.drag_transform_recorded
        /\ lastOp = "init"
        /\ trail = << >>
        /\ pre = None
        /\ issued = 1..(s.next_id - 1)
        /\ steps = 0

InitFrom(S) == InitWith(S, { DefaultView })

Init == InitFrom(Scenes)

(***************************************************************************)
(* Actions: one per handler.  Ran(name, s2) installs the app record the    *)
(* handler returns and records it for the observers: pre keeps the start   *)
(* state of undo, redo and of every handler that took a checkpoint; trail  *)
(* keeps the handler before an undo or redo (and the one before that undo  *)
(* when a redo follows it) and the undo or redo before an edit.            *)
(***************************************************************************)
Ran(name, result) ==
    /\ \E s2 \in { result } :
          /\ SetApp(s2)
          /\ lastOp' = name
          /\ trail' = IF IsNone(pre) \/ { name, lastOp } \cap { "undo", "redo" } = {}
                      THEN << >>
                      ELSE IF name = "redo" /\ lastOp = "undo"
                      THEN Append(trail, lastOp)
                      ELSE << lastOp >>
          /\ pre' = IF name \in { "undo", "redo" } \/ s2.history # history
                    THEN Some(App) ELSE None
          /\ issued' = issued \cup
                         (IF name \in { "undo", "redo" } THEN {}
                          ELSE ElementIds(s2.doc) \ ElementIds(doc))
          /\ UNCHANGED << view, zoomed, probed >>

\* the bounds of the exploration: one more handler runs
Step == steps < MaxSteps /\ steps' = steps + 1
Room(n) == Len(doc.elements) + n <= MaxElems

\* the pointer positions of the gestures
PressPoints == { << -10, -10 >>, << 5, 5 >> }
DragPoints == { << 15, 15 >>, << 80, 30 >> }

\* update(): the frame starts with sync_bound_line_endpoints
Sync == Step /\ Ran("sync", sync_bound_line_endpoints(App))

\* Layers panel: a click on the entry of any element
Click == Step /\ \E id \in ElementIds(doc) : Ran("click", set_selection_single(App, id))
ShiftClick ==
    Step /\ \E id \in ElementIds(doc) : Ran("shift_click", toggle_selection(App, id))
SelectAll == Step /\ Ran("select_all", SelectAllOf(App))
DeselectAll == Step /\ Ran("deselect_all", clear_selection(App))

Press ==
    /\ Step
    /\ Room(1)
    /\ \E tool \in { "Select", "Rectangle", "Line" } : \E p \in PressPoints :
          \E multi_select \in BOOLEAN :
             Ran("press", press(App, tool, p, multi_select))
Drag == Step /\ \E p \in DragPoints : Ran("drag", dragged(App, p, << 10, 0 >>))
Release == Step /\ Ran("release", released(App))
DoubleClick == Step /\ \E p \in PressPoints : Ran("double_click", double_clicked(App, p))
Escape == Step /\ Ran("escape", escape(App))

Undo == Step /\ Ran("undo", undo(App))
Redo == Step /\ Ran("redo", redo(App))

Delete == Step /\ Ran("delete", delete_selected(App))
Duplicate ==
    Step /\ Room(Cardinality(selected)) /\ Ran("duplicate", duplicate_selected(App))
Copy == Step /\ Ran("copy", copy_selected(App))
Cut == Step /\ Ran("cut", cut_selected(App))
Paste ==
    /\ Step
    /\ IsSome(clipboard) => Room(Len(Unwrap(clipboard).elements))
    /\ \E target \in { None, Some(<< 100, 100 >>) } : Ran("paste", paste(App, target))
Group == Step /\ Ran("group", group_selected(App))
Ungroup == Step /\ Ran("ungroup", ungroup_selected(App))
BringToFront == Step /\ Ran("bring_to_front", bring_selected_to_front(App))
SendToBack == Step /\ Ran("send_to_back", send_selected_to_back(App))
MoveLayer ==
    Step /\ \E delta \in { -1, 1 } : Ran("move_layer", move_selected_layer_by(App, delta))
\* an arrow key with a selection: push_undo, then translate by move_step
Nudge ==
    /\ Step
    /\ selected # {}
    /\ Ran("nudge", translate_selected(push_undo(App), << 1, 0 >>))
\* auto_connect_selected: the two selected ids in either order of the HashSet
AutoConnect ==
    /\ Step
    /\ Room(1)
    /\ IF Cardinality(selected) # 2
       THEN Ran("auto_connect",
                [ App EXCEPT !.status = Some("Select exactly 2 objects to connect") ])
       ELSE \E a \in selected : \E b \in selected \ { a } :
                Ran("auto_connect", auto_connect_between(App, a, b))
\* CommandPalette::execute for the Align, Distribute and Abut commands, which
\* the palette and the Object menu offer with two or more selected elements:
\* push_undo, then the operation on the Document
Align ==
    /\ Step
    /\ Cardinality(selected) >= 2
    /\ \E mode \in AlignModes :
          Ran("align", execute_arrange(App, "Align", mode))
Distribute ==
    /\ Step
    /\ Cardinality(selected) >= 2
    /\ \E mode \in { "Horizontal", "Vertical" } :
          Ran("distribute", execute_arrange(App, "Distribute", mode))
Abut ==
    /\ Step
    /\ Cardinality(selected) >= 2
    /\ \E mode \in { "Horizontal", "Vertical" } :
          Ran("abut", execute_arrange(App, "Abut", mode))
\* the Properties panel with no single selection: the default stroke width
EditStyle ==
    /\ Step
    /\ Cardinality(selected) # 1
    /\ \E w \in { 2, 4 } : Ran("edit_style", edit_style(App, [ style EXCEPT !.width = w ]))

\* interact_selection_handles, once per frame with the Select tool: a drag of a
\* handle starts only when none is in course
HandlePoints == { << 10, 10 >>, << 24, 18 >> }
HandleStart ==
    /\ Step
    /\ IsNone(active_transform)
    /\ \E h \in { "resize", "Start", "End" } : \E p \in HandlePoints :
          Ran("handle_start",
              interact_selection_handles(App, Some(p), [ shift |-> FALSE, type |-> "start", handle |-> h ]))
HandleMove ==
    /\ Step
    /\ \E p \in HandlePoints :
        Ran("handle_move",
            interact_selection_handles(App, Some(p), [ shift |-> FALSE, type |-> "none", handle |-> "resize" ]))
HandleStop ==
    /\ Step
    /\ IsSome(active_transform)
    /\ \E p \in HandlePoints :
          Ran("handle_stop",
              interact_selection_handles(App, Some(p),
                 [ shift |-> FALSE, type |-> "stop",
                   handle |-> IF Unwrap(active_transform).kind = "Resize" THEN "resize"
                              ELSE Unwrap(active_transform).endpoint ]))

\* the editing session: selection, gestures, structural operations, clipboard,
\* undo and redo
Next ==
    \/ Sync
    \/ Click
    \/ ShiftClick
    \/ SelectAll
    \/ DeselectAll
    \/ Press
    \/ Drag
    \/ Release
    \/ Undo
    \/ Redo
    \/ Delete
    \/ Duplicate
    \/ Copy
    \/ Cut
    \/ Paste
    \/ Group
    \/ Ungroup
    \/ BringToFront
    \/ SendToBack
    \/ MoveLayer
    \/ Nudge
    \/ AutoConnect
    \/ EditStyle

Spec == Init /\ [][Next]_vars

\* the pointer session: gestures and the selection handles, with undo and redo
InitUI == InitFrom({ NewApp, OneRect, SceneBound })

NextUI ==
    \/ Sync
    \/ Click
    \/ Press
    \/ Drag
    \/ Release
    \/ DoubleClick
    \/ Escape
    \/ HandleStart
    \/ HandleMove
    \/ HandleStop
    \/ Nudge
    \/ Undo
    \/ Redo

SpecUI == InitUI /\ [][NextUI]_vars

\* the connector session: lines are drawn, their ends dragged and rebound, and
\* shapes are connected, moved, deleted, duplicated, copied and pasted, with
\* undo and redo
InitBind == InitFrom({ NewApp, OneRect, SceneBound })

NextBind ==
    \/ Sync
    \/ Click
    \/ ShiftClick
    \/ Press
    \/ Drag
    \/ Release
    \/ HandleStart
    \/ HandleMove
    \/ HandleStop
    \/ AutoConnect
    \/ Nudge
    \/ Delete
    \/ Duplicate
    \/ Copy
    \/ Paste
    \/ Undo
    \/ Redo

SpecBind == InitBind /\ [][NextBind]_vars

\* the tracking session: Rect A of (0,0)-(100,100) and a line from its corner
\* (100,0), where its start is bound at the normalized point (0.5,-0.5), to the
\* free point (200,200); the selection is dragged about, with undo and redo
SceneTrack ==
    Only({ DrawLine(s, << 100, 0 >>, << 200, 200 >>) :
             s \in { DrawRect(NewApp, << 0, 0 >>, << 100, 100 >>) } })
InitTrack == InitFrom({ SceneTrack })
DragDeltas == { << 50, 0 >>, << 0, 50 >>, << -20, 10 >> }
DragBy ==
    /\ Step
    /\ \E p \in DragPoints : \E delta \in DragDeltas : Ran("drag", dragged(App, p, delta))

NextTrack ==
    \/ Sync
    \/ Click
    \/ ShiftClick
    \/ DragBy
    \/ Release
    \/ Nudge
    \/ Undo
    \/ Redo

SpecTrack == InitTrack /\ [][NextTrack]_vars

\* the zooming session: from any view of a small set, the view is zoomed about
\* a screen point by a factor, the scroll factors 0.8 and 1.25 and factors that
\* drive the zoom out of [0.1, 8.0]
Views ==
    { [ pan_screen |-> << << px, 1 >>, << py, 2 >> >>, zoom |-> z ] :
        px \in { 0, 30 }, py \in { 0, -15 }, z \in { ZoomMin, << 1, 1 >>, << 3, 2 >>, ZoomMax } }
Origins == { << << 0, 1 >>, << 0, 1 >> >>, << << 20, 1 >>, << 10, 1 >> >> }
ScreenPoints == { << << 100, 1 >>, << 50, 1 >> >>, << << 33, 1 >>, << 155, 2 >> >> }
ZoomDeltas == { << 4, 5 >>, << 5, 4 >>, << 1, 100 >>, << 100, 1 >>, << -1, 1 >> }
InitView == InitWith({ NewApp }, Views)
Zoom ==
    /\ steps < MaxZooms
    /\ steps' = steps + 1
    /\ \E origin \in Origins : \E screen_point \in ScreenPoints : \E zoom_delta \in ZoomDeltas :
          /\ view' = zoom_about_screen_point(view, origin, screen_point, zoom_delta)
          /\ zoomed' = Some([ view |-> view, origin |-> origin,
                              screen_point |-> screen_point, zoom_delta |-> zoom_delta ])
    /\ lastOp' = "zoom"
    /\ UNCHANGED << doc, selected, next_id, next_group_id, style, in_progress,
                    active_transform, editing_text_id, status, history, future,
                    clipboard, drag_transform_recorded, probed, trail, pre, issued >>

NextView == Zoom

SpecView == InitView /\ [][NextView]_vars

\* the arranging session: selection, every operation on the selection that
\* changes the Document without a drag, the clipboard, undo and redo
InitArrange == InitFrom({ SceneBound, SceneGroup, SceneRow })

NextArrange ==
    \/ Click
    \/ ShiftClick
    \/ SelectAll
    \/ Undo
    \/ Redo
    \/ Delete
    \/ Duplicate
    \/ Copy
    \/ Cut
    \/ Paste
    \/ Group
    \/ Ungroup
    \/ BringToFront
    \/ SendToBack
    \/ MoveLayer
    \/ Nudge
    \/ AutoConnect
    \/ Align
    \/ Distribute
    \/ Abut

SpecArrange == InitArrange /\ [][NextArrange]_vars

\* the binding session: one shape drawn with the Rectangle or the Triangle
\* tool, and the attach point of a connector is asked for at a world point
ProbeShapes ==
    { AddElement(NewApp, kind, r[1], r[2], None, None) :
        kind \in BindableKinds,
        r \in { << << 0, 0 >>, << 10, 10 >> >>, << << 0, 0 >>, << 20, 10 >> >>,
                << << 10, 10 >>, << 50, 30 >> >> } }
ProbePoints ==
    { << x, y >> : x \in { -5, 0, 3, 5, 10, 15, 25, 30, 60 }, y \in { -5, 0, 2, 5, 10, 20, 40 } }
InitProbe == InitFrom(ProbeShapes)
Probe ==
    /\ steps < MaxProbes
    /\ steps' = steps + 1
    /\ \E world_pos \in ProbePoints :
          \E binding \in { compute_binding_for_target(doc, doc.elements[1].id, world_pos) } :
             probed' = Some([ world_pos |-> world_pos,
                              binding |-> binding,
                              resolved |-> IF IsNone(binding) THEN None
                                           ELSE resolve_binding_point(doc, Unwrap(binding)) ])
    /\ lastOp' = "probe"
    /\ UNCHANGED << doc, selected, next_id, next_group_id, style, in_progress,
                    active_transform, editing_text_id, status, history, future,
                    clipboard, drag_transform_recorded, view, zoomed, trail, pre, issued >>

NextProbe == Probe

SpecProbe == InitProbe /\ [][NextProbe]_vars

\* the long session: one rectangle is nudged to the right, with undo and redo,
\* until more than LIMIT checkpoints have been taken
InitHist == InitFrom({ OneRect })

\* the observers of the long session keep the name of the handler only
RanHist(name, result) ==
    /\ \E s2 \in { result } : SetApp(s2)
    /\ lastOp' = name
    /\ UNCHANGED << view, zoomed, probed, trail, pre, issued, steps >>

HistNudge ==
    /\ selected # {}
    /\ \A i \in 1..Len(doc.elements) : doc.elements[i].a[1] < MaxPushes
    /\ RanHist("nudge", translate_selected(push_undo(App), << 1, 0 >>))
HistUndo == history # << >> /\ RanHist("undo", undo(App))
HistRedo == future # << >> /\ RanHist("redo", redo(App))

NextHist ==
    \/ HistNudge
    \/ HistUndo
    \/ HistRedo

SpecHist == InitHist /\ [][NextHist]_vars

\* the deep session: a saved diagram is opened whose groups are nested in one
\* chain, as n nested Group commands build it (two elements in the innermost
\* group 1, one more element in each group around it), after `loose` elements
\* that belong to no group; then elements are clicked and shift-clicked
ChainDoc(n, loose) ==
    [ elements |->
        [ i \in 1..(loose + n + 1) |->
            [ NewElement(i, "Rect", << 20 * i, 0 >>, << 20 * i + 10, 10 >>,
                         None, None, NewApp.style)
              EXCEPT !.group_id = IF i <= loose THEN None
                                  ELSE IF i - loose <= 2 THEN Some(1)
                                  ELSE Some(i - loose - 1) ] ],
      groups |->
        [ g \in 1..n |-> [ id |-> g, parent_id |-> IF g < n THEN Some(g + 1) ELSE None ] ] ]

Depths == (1..ShallowDepth) \cup { HOPS + 1, MaxDepth }

open_json_dialog(s, loaded) ==
    Bind(push_undo(s), LAMBDA s1 :
         [ s1 EXCEPT !.doc = loaded,
                     !.selected = {},
                     !.next_id = 1 + IF loaded.elements = << >> THEN 0
                                     ELSE CHOOSE m \in ElementIds(loaded) :
                                            \A x \in ElementIds(loaded) : x <= m,
                     !.status = Some("Loaded") ])

\* the elements the deep session clicks: the two lowest and the two topmost
Targets(d) ==
    { d.elements[i].id : i \in { 1, 2, Len(d.elements) - 1, Len(d.elements) }
                                  \cap (1..Len(d.elements)) }

InitDeep == InitFrom({ NewApp })

DeepOpen ==
    /\ doc.elements = << >>
    /\ \E n \in Depths, loose \in 0..MaxLoose :
          RanHist("open", open_json_dialog(App, ChainDoc(n, loose)))
DeepClick ==
    \E id \in Targets(doc) : RanHist("click", set_selection_single(App, id))
DeepShiftClick ==
    \E id \in Targets(doc) : RanHist("shift_click", toggle_selection(App, id))
DeepDeselect == selected # {} /\ RanHist("deselect_all", clear_selection(App))

NextDeep ==
    \/ DeepOpen
    \/ DeepClick
    \/ DeepShiftClick
    \/ DeepDeselect

SpecDeep == InitDeep /\ [][NextDeep]_vars

(***************************************************************************)
(* Properties.  PreApp is the app record the last handler started from     *)
(* (kept for undo, redo and every handler that took a checkpoint);         *)
(* snapshot(App) is the part of the state a Snapshot holds: the Document,  *)
(* the selection, next_id, next_group_id and the style.                    *)
(***************************************************************************)
PreApp == Unwrap(pre)

\* the last handler was an edit that took a checkpoint
Checkpointed == IsSome(pre) /\ lastOp \notin { "undo", "redo" }

RedoMirrorsUndo ==
    [][/\ (lastOp = "undo" /\ trail # << >> /\ trail[1] \notin { "undo", "redo" }
           /\ lastOp' = "redo")
          => /\ snapshot(App)' = snapshot(PreApp)
             /\ history' = PreApp.history
             /\ future' = << >>
       /\ (lastOp' = "undo" /\ history = << >>) => App' = App
       /\ (lastOp' = "redo" /\ future = << >>) => App' = App]_vars

\* duplicate, undo, redo: the clones are back, nothing is left to redo
RedoMirrorsUndoWitness ==
    /\ lastOp = "redo"
    /\ trail = << "duplicate", "undo" >>
    /\ future = << >>
    /\ PreApp.future # << >>
    /\ doc # PreApp.doc
    /\ history # << >>

\* C3: history never holds more than LIMIT = 200 snapshots (nor do history and
\* future together), and a checkpoint taken with 200 snapshots stored drops the
\* oldest one and keeps the newest 200 in order.
HistoryBounded ==
    /\ [](Len(history) + Len(future) <= LIMIT)
    /\ [][(lastOp' = "nudge" /\ Len(history) = LIMIT)
            => history' = Tail(history) \o << snapshot(App) >>]_vars

\* 200 snapshots are stored and the two oldest ones (the empty Document and
\* the rectangle at its first place) have been dropped
HistoryBoundedWitness ==
    /\ lastOp = "nudge"
    /\ Len(history) = LIMIT
    /\ history[1].doc.elements # << >>
    /\ history[1].doc.elements[1].a[1] > 0

\* C4: every checkpoint empties future, so after undo() and a new edit,
\* redo() changes nothing.
EditInvalidatesRedo ==
    [][/\ (lastOp' \notin { "undo", "redo" } /\ history' # history) => future' = << >>
       /\ (Checkpointed /\ trail = << "undo" >> /\ lastOp' = "redo") => App' = App]_vars

\* an edit right after an undo: the snapshot that undo had put on future is gone
EditInvalidatesRedoWitness ==
    /\ Checkpointed
    /\ trail = << "undo" >>
    /\ PreApp.future # << >>
    /\ future = << >>

\* C5: after an undo() or redo() that restored a snapshot, in_progress,
\* active_transform, editing_text_id and status are all None.
RestoreResetsTransient ==
    (/\ lastOp \in { "undo", "redo" }
     /\ (IF lastOp = "undo" THEN PreApp.history ELSE PreApp.future) # << >>)
    => /\ in_progress = None
       /\ active_transform = None
       /\ editing_text_id = None
       /\ status = None

\* the consequence drawn from it: a handle drag that was active before undo()
\* does not modify the restored Document in the frames that follow.
NoDragAfterRestore ==
    [][(lastOp = "undo" /\ lastOp' = "handle_move") => doc' = doc]_vars

\* C6: no two elements of the Document share an id, and every element id is
\* strictly less than next_id.
ElementIdsUnique ==
    /\ \A i, j \in 1..Len(doc.elements) :
          i # j => doc.elements[i].id # doc.elements[j].id
    /\ \A i \in 1..Len(doc.elements) : doc.elements[i].id < next_id

\* a paste after an undo: the clones take the ids from the restored next_id on
ElementIdsUniqueWitness ==
    /\ lastOp = "paste"
    /\ trail = << "undo" >>
    /\ Len(doc.elements) >= 4
    /\ \E i \in 1..Len(doc.elements) : doc.elements[i].id = next_id - 1

\* C7: an id that was handed out to an element is never handed out again: the
\* elements a handler other than undo and redo adds to the Document carry ids
\* that no element of the session has carried before.
IdsNeverReused ==
    [][lastOp' \notin { "undo", "redo" }
         => (ElementIds(doc') \ ElementIds(doc)) \cap issued = {}]_vars

(***************************************************************************)
(* The group forest read directly off the Document: the topmost ancestor   *)
(* of a group (following parent_id for as long as there is one) and the    *)
(* elements in the subtree of a group.                                     *)
(***************************************************************************)
ParentOf(d, g) ==
    LET i == FirstIndex(d.groups, g) IN IF i = 0 THEN None ELSE d.groups[i].parent_id

\* n steps up from g, staying at a group that has no parent
RECURSIVE Climb(_, _, _)
Climb(d, g, n) ==
    IF n = 0 \/ IsNone(ParentOf(d, g)) THEN g
    ELSE IF n = 1 THEN Unwrap(ParentOf(d, g))
    ELSE Climb(d, Climb(d, g, n \div 2), n - n \div 2)

TopmostAncestor(d, g) == Climb(d, g, Len(d.groups))

\* n times: add the groups whose parent is in gs
RECURSIVE Grow(_, _, _)
Grow(d, gs, n) ==
    IF n = 0 \/ gs = {} THEN gs
    ELSE IF n = 1
    THEN LET kids == { d.groups[i].id :
                         i \in { j \in 1..Len(d.groups) :
                                   /\ IsSome(d.groups[j].parent_id)
                                   /\ Unwrap(d.groups[j].parent_id) \in gs } }
         IN  { x \in GroupIds(d) \cup gs : x \in gs \/ x \in kids }
    ELSE Grow(d, Grow(d, gs, n \div 2), n - n \div 2)

SubtreeGroups(d, g) == Grow(d, { g }, Len(d.groups))

SubtreeElements(d, g) ==
    LET gs == SubtreeGroups(d, g)
    IN  { d.elements[i].id :
            i \in { j \in 1..Len(d.elements) :
                      /\ IsSome(d.elements[j].group_id)
                      /\ Unwrap(d.elements[j].group_id) \in gs } }

RootGroups(d) ==
    { d.groups[i].id : i \in { j \in 1..Len(d.groups) : IsNone(d.groups[j].parent_id) } }

\* what selecting the element id has to select
ClosureOf(d, id) ==
    LET e == FindElement(d, id)
    IN  IF IsNone(e) \/ IsNone(Unwrap(e).group_id) THEN { id }
        ELSE SubtreeElements(d, TopmostAncestor(d, Unwrap(Unwrap(e).group_id)))

\* C9: the selection is group-closed: if any element of a root group's subtree
\* is selected then every element of that root group's subtree is selected.
SelectionGroupClosed ==
    \A r \in RootGroups(doc) :
        SubtreeElements(doc, r) \cap selected # {}
            => SubtreeElements(doc, r) \subseteq selected

\* the elements a paste step appended to the Document, and the groups
PastedElements(before, after) ==
    SubSeq(after.elements, Len(before.elements) + 1, Len(after.elements))

PastedGroups(before, after) ==
    SubSeq(after.groups, Len(before.groups) + 1, Len(after.groups))

\* the references of a pasted copy stay inside the copy
CopyIsClosed(es, gs) ==
    LET ids == { es[i].id : i \in 1..Len(es) }
        gids == { gs[i].id : i \in 1..Len(gs) }
    IN  /\ \A i \in 1..Len(es) :
              /\ IsSome(es[i].start_binding) => Unwrap(es[i].start_binding).element_id \in ids
              /\ IsSome(es[i].end_binding) => Unwrap(es[i].end_binding).element_id \in ids
              /\ IsSome(es[i].group_id) => Unwrap(es[i].group_id) \in gids
        /\ \A i \in 1..Len(gs) :
              IsSome(gs[i].parent_id) => Unwrap(gs[i].parent_id) \in gids

\* C10: a paste gives its copy element ids and group ids that are new to the
\* Document and pairwise distinct, and every binding, group_id and parent_id of
\* the copy refers into the copy; a second paste of the same payload gives a
\* copy whose element ids and group ids are disjoint from those of the first.
PasteNonCollision ==
    [][(lastOp' = "paste" /\ IsSome(clipboard))
         => LET es == PastedElements(doc, doc')
                gs == PastedGroups(doc, doc')
                ids == { es[i].id : i \in 1..Len(es) }
                gids == { gs[i].id : i \in 1..Len(gs) }
            IN  /\ Len(es) = Len(Unwrap(clipboard).elements)
                /\ Len(gs) = Len(Unwrap(clipboard).groups)
                /\ Cardinality(ids) = Len(es)
                /\ Cardinality(gids) = Len(gs)
                /\ ids \cap ElementIds(doc) = {}
                /\ gids \cap GroupIds(doc) = {}
                /\ SubSeq(doc'.elements, 1, Len(doc.elements)) = doc.elements
                /\ SubSeq(doc'.groups, 1, Len(doc.groups)) = doc.groups
                /\ CopyIsClosed(es, gs)
                /\ (lastOp = "paste" /\ IsSome(pre))
                     => /\ ids \cap (ElementIds(doc) \ ElementIds(PreApp.doc)) = {}
                        /\ gids \cap (GroupIds(doc) \ GroupIds(PreApp.doc)) = {}]_vars

\* the second paste of a grouped rectangle and the line bound to it: two
\* copies, each with its own group and its own bound line
PasteNonCollisionWitness ==
    /\ lastOp = "paste"
    /\ IsSome(pre)
    /\ PreApp.status = Some("Pasted")
    /\ Len(PastedElements(PreApp.doc, doc)) = 2
    /\ Len(PastedGroups(PreApp.doc, doc)) = 1
    /\ Len(doc.groups) = 3
    /\ \E i \in 1..Len(doc.elements) :
          /\ doc.elements[i].id \notin ElementIds(PreApp.doc)
          /\ IsSome(doc.elements[i].start_binding) \/ IsSome(doc.elements[i].end_binding)

\* C8: set_selection_single(id) selects exactly the elements in the subtree of
\* the topmost ancestor of the group of id, whatever the nesting depth, and
\* exactly { id } for an element that belongs to no group.
SelectionClosure ==
    \A id \in Targets(doc) :
        set_selection_single(App, id).selected = ClosureOf(doc, id)

\* a group record is in use when an element is a member of it or a group is
\* its child
GroupInUse(d, g) ==
    \/ \E i \in 1..Len(d.elements) : d.elements[i].group_id = Some(g)
    \/ \E i \in 1..Len(d.groups) : d.groups[i].parent_id = Some(g)

\* C11: after a delete, cut, ungroup or paste that ran normalize_groups, the
\* Document holds no group record without a member element and without a
\* child group.
OrphanGroupsPruned ==
    (Checkpointed /\ lastOp \in { "delete", "cut", "ungroup", "paste" })
        => \A i \in 1..Len(doc.groups) : GroupInUse(doc, doc.groups[i].id)

\* C12: the parent relation of the groups is a forest: from every group the
\* walk along parent_id ends at a group without a parent (in fewer steps than
\* there are groups), so no group is its own ancestor.
GroupsAreForest ==
    \A i \in 1..Len(doc.groups) :
        /\ IsNone(ParentOf(doc, Climb(doc, doc.groups[i].id, Len(doc.groups))))
        /\ \A j \in 1..Len(doc.groups) : i # j => doc.groups[i].id # doc.groups[j].id

\* a nested group was pasted: the copy of the inner group hangs under the copy
\* of the outer one
GroupsAreForestWitness ==
    /\ lastOp = "paste"
    /\ Checkpointed
    /\ \E i \in (Len(PreApp.doc.groups) + 1)..Len(doc.groups) :
          IsSome(doc.groups[i].parent_id)

\* the roots of the selection: the topmost group of every grouped selected
\* element, and every selected id outside all groups
SelectionRoots(d, sel) ==
    { << "group", TopmostAncestor(d, Unwrap(d.elements[i].group_id)) >> :
        i \in { k \in 1..Len(d.elements) :
                  d.elements[k].id \in sel /\ IsSome(d.elements[k].group_id) } }
      \cup { << "element", id >> :
               id \in { x \in sel : \A k \in 1..Len(d.elements) :
                                       d.elements[k].id = x => IsNone(d.elements[k].group_id) } }

\* C13: an operation whose cardinality precondition fails (group with fewer
\* than 2 selection roots, distribute with fewer than 3 selected elements,
\* auto-connect with a selection that is not exactly 2 elements) leaves the
\* Document, the history and the future unchanged.
CardinalityNoOps ==
    [][ ( /\ steps' # steps
          /\ \/ lastOp' = "group" /\ Cardinality(SelectionRoots(doc, selected)) < 2
             \/ lastOp' = "distribute" /\ Cardinality(selected) < 3
             \/ lastOp' = "auto_connect" /\ Cardinality(selected) # 2 )
        => (doc' = doc /\ history' = history /\ future' = future) ]_vars

MutatingOps ==
    { "delete", "cut", "duplicate", "paste", "bring_to_front", "send_to_back",
      "move_layer", "group", "ungroup", "auto_connect", "nudge", "align",
      "distribute", "abut" }

\* C14: every non-drag mutation operation that changes the Document appends
\* exactly one snapshot to history, and that snapshot holds the Document as it
\* was before the operation.
OneSnapshotPerMutation ==
    [][ (steps' # steps /\ lastOp' \in MutatingOps /\ doc' # doc)
        => /\ Len(history') = Len(history) + 1
           /\ SubSeq(history', 1, Len(history)) = history
           /\ history'[Len(history')].doc = doc ]_vars
\* a cut has removed the selected elements after one checkpoint
OneSnapshotPerMutationWitness ==
    /\ lastOp = "cut"
    /\ Checkpointed
    /\ doc # PreApp.doc
    /\ Len(history) = Len(PreApp.history) + 1

\* what delete leaves of one end of a line: the end point p and its binding
\* before (in Document d, with the ids in sel deleted), q and its binding after
EndAfterDelete(d, sel, p, binding, q, binding2) ==
    IF IsSome(binding) /\ Unwrap(binding).element_id \in sel
    THEN binding2 = None /\ q = ResolveOr(d, binding, p)
    ELSE binding2 = binding

\* C15: after delete_selected every selected element is gone, every other
\* element is still there, an end of a surviving line that was bound to a
\* deleted element is unbound and stored where the binding resolved to in the
\* Document before the delete, an end bound to a surviving element keeps its
\* binding, and the selection is empty.
DeletePreservesConnectors ==
    [][ (steps' # steps /\ lastOp' = "delete" /\ selected # {})
        => /\ selected' = {}
           /\ \A j \in 1..Len(doc'.elements) : doc'.elements[j].id \notin selected
           /\ \A i \in 1..Len(doc.elements) :
                doc.elements[i].id \notin selected
                  => \E j \in 1..Len(doc'.elements) :
                        /\ doc'.elements[j].id = doc.elements[i].id
                        /\ doc'.elements[j].kind = doc.elements[i].kind
                        /\ IsLine(doc.elements[i])
                             => /\ EndAfterDelete(doc, selected,
                                       doc.elements[i].a, doc.elements[i].start_binding,
                                       doc'.elements[j].a, doc'.elements[j].start_binding)
                                /\ EndAfterDelete(doc, selected,
                                       doc.elements[i].b, doc.elements[i].end_binding,
                                       doc'.elements[j].b, doc'.elements[j].end_binding) ]_vars
\* a delete has removed the target of a bound end of a line that is still there
DeletePreservesConnectorsWitness ==
    /\ lastOp = "delete"
    /\ Checkpointed
    /\ \E i \in 1..Len(PreApp.doc.elements) : \E j \in 1..Len(doc.elements) :
          /\ IsLine(doc.elements[j])
          /\ doc.elements[j].id = PreApp.doc.elements[i].id
          /\ IsSome(PreApp.doc.elements[i].start_binding)
          /\ Unwrap(PreApp.doc.elements[i].start_binding).element_id \in PreApp.selected
          /\ IsNone(doc.elements[j].start_binding)
          /\ IsSome(doc.elements[j].end_binding)

\* the binding, when there is one, names a shape of Document d
BindingIntact(d, binding) ==
    IsSome(binding)
      => \E k \in 1..Len(d.elements) :
            /\ d.elements[k].id = Unwrap(binding).element_id
            /\ d.elements[k].kind = "Rect"

\* C16: every start_binding and end_binding stored on a line refers to an
\* element that is in the Document and is of a bindable kind, never a line.
BindingsReferToShapes ==
    \A i \in 1..Len(doc.elements) :
        IsLine(doc.elements[i])
          => /\ BindingIntact(doc, doc.elements[i].start_binding)
             /\ BindingIntact(doc, doc.elements[i].end_binding)
\* a line bound to a shape was copied with it: the pasted line is bound to the
\* pasted shape at one end and free at the other, whose target was left behind
BindingsReferToShapesWitness ==
    /\ lastOp = "paste"
    /\ Checkpointed
    /\ \E i \in 1..Len(doc.elements) :
          /\ IsLine(doc.elements[i])
          /\ doc.elements[i].id \notin ElementIds(PreApp.doc)
          /\ IsSome(doc.elements[i].start_binding)
          /\ Unwrap(doc.elements[i].start_binding).element_id \notin ElementIds(PreApp.doc)
          /\ IsNone(doc.elements[i].end_binding)

\* the scene of the example: element 1 is Rect A of (0,0)-(100,100), element 2
\* the line whose start is bound to A at (0.5,-0.5) and whose end is free at
\* (200,200)
TrackScene(d) ==
    /\ Len(d.elements) = 2
    /\ d.elements[1].kind = "Rect"
    /\ d.elements[1].a = << 0, 0 >> /\ d.elements[1].b = << 100, 100 >>
    /\ IsLine(d.elements[2])
    /\ d.elements[2].start_binding =
           Some([ element_id |-> d.elements[1].id, norm |-> << 500, -500 >> ])
    /\ d.elements[2].end_binding = None
    /\ d.elements[2].b = << 200, 200 >>
\* A alone is translated by (+50,0) in this step
TrackMove ==
    /\ steps' # steps
    /\ TrackScene(doc)
    /\ selected = { doc.elements[1].id }
    /\ lastOp' = "drag"
    /\ Len(doc'.elements) = 2
    /\ doc'.elements[1].a = << 50, 0 >> /\ doc'.elements[1].b = << 150, 100 >>
LineEnds(d, e) == resolved_line_endpoints_world(d, e.a, e.b, e.start_binding, e.end_binding)

\* C17 as stated: after A alone is translated by (+50,0) the resolved start of
\* the line is (100,0) and its end (200,200).
TrackedStartAsStated ==
    [][ TrackMove => LineEnds(doc', doc'.elements[2]) = << << 100, 0 >>, << 200, 200 >> >> ]_vars
\* C17: with Rect A of (0,0)-(100,100) and a line whose start is bound to A at
\* the normalized point (0.5,-0.5), A's top right corner, and whose end is free
\* at (200,200), after A alone is translated by (+50,0) the resolved start is
\* (150,0), the corner of the moved A, and the end is still (200,200).
TrackedStartFollowsCorner ==
    [][ TrackMove => LineEnds(doc', doc'.elements[2]) = << << 150, 0 >>, << 200, 200 >> >> ]_vars
\* A has just been dragged alone from (0,0)-(100,100) to (50,0)-(150,100)
TrackedStartWitness ==
    /\ lastOp = "drag"
    /\ Checkpointed
    /\ TrackScene(PreApp.doc)
    /\ PreApp.selected = { PreApp.doc.elements[1].id }
    /\ Len(doc.elements) = 2
    /\ doc.elements[1].a = << 50, 0 >> /\ doc.elements[1].b = << 150, 100 >>
    /\ LineEnds(PreApp.doc, PreApp.doc.elements[2]) = << << 100, 0 >>, << 200, 200 >> >>

\* the scene of the example: rects 1 and 2 are the members of G1, the only
\* group, rect 3 is in no group, and all three are selected
NestScene ==
    /\ Len(doc.elements) = 3
    /\ Len(doc.groups) = 1
    /\ IsNone(doc.groups[1].parent_id)
    /\ doc.elements[1].group_id = Some(doc.groups[1].id)
    /\ doc.elements[2].group_id = Some(doc.groups[1].id)
    /\ IsNone(doc.elements[3].group_id)
    /\ selected = ElementIds(doc)
\* group_selected runs on the scene in this step
NestStep == steps' # steps /\ NestScene /\ lastOp' = "group"
\* after the step: G2 is a new root group and the parent of G1, whose members
\* are still rects 1 and 2
NestedUnderNewRoot(g2) ==
    /\ doc'.groups[g2].id \notin GroupIds(doc)
    /\ IsNone(doc'.groups[g2].parent_id)
    /\ \E g1 \in 1..Len(doc'.groups) :
          /\ doc'.groups[g1].id = doc.groups[1].id
          /\ doc'.groups[g1].parent_id = Some(doc'.groups[g2].id)
    /\ doc'.elements[1].group_id = doc.elements[1].group_id
    /\ doc'.elements[2].group_id = doc.elements[2].group_id

\* C18 as stated: the third rect is placed in a new singleton group of its own
\* whose parent is G2.
NestedWithSingletonGroup ==
    [][ NestStep
        => \E g2 \in 1..Len(doc'.groups) :
              /\ NestedUnderNewRoot(g2)
              /\ \E g3 \in 1..Len(doc'.groups) :
                    /\ doc'.groups[g3].id \notin GroupIds(doc)
                    /\ g3 # g2
                    /\ doc'.groups[g3].parent_id = Some(doc'.groups[g2].id)
                    /\ doc'.elements[3].group_id = Some(doc'.groups[g3].id) ]_vars
\* C18: after grouping two rects into G1 and then calling group_selected with
\* G1's members and a third ungrouped rect selected, the Document has a new
\* root group G2, G1's parent is G2, and the third rect is a direct member of
\* G2: no other group is created.
NestedWithDirectMember ==
    [][ NestStep
        => /\ Len(doc'.groups) = 2
           /\ Len(doc'.elements) = 3
           /\ \E g2 \in 1..Len(doc'.groups) :
                 /\ NestedUnderNewRoot(g2)
                 /\ doc'.elements[3].group_id = Some(doc'.groups[g2].id) ]_vars
\* group_selected has just nested G1 and the third rect in a new group
NestedWitness ==
    /\ lastOp = "group"
    /\ Checkpointed
    /\ Len(PreApp.doc.groups) = 1
    /\ Len(PreApp.doc.elements) = 3
    /\ IsNone(PreApp.doc.elements[3].group_id)
    /\ IsSome(PreApp.doc.elements[1].group_id)
    /\ PreApp.doc.elements[1].group_id = PreApp.doc.elements[2].group_id
    /\ PreApp.selected = ElementIds(PreApp.doc)
    /\ Len(doc.groups) = 2
    /\ IsSome(doc.elements[3].group_id)

\* the doubled centre of the bounds of element i of Document d on axis ax
CentreOf(d, i, ax) == bounds(d.elements[i])[1][ax] + bounds(d.elements[i])[2][ax]
\* the selected elements of the Document
Chosen == { i \in 1..Len(doc.elements) : doc.elements[i].id \in selected }
\* the place of element i among the selected ones in centre order (0 for the
\* first; elements with equal centres in document order)
CentreRank(i, ax) ==
    Cardinality({ j \in Chosen :
                    \/ CentreOf(doc, j, ax) < CentreOf(doc, i, ax)
                    \/ CentreOf(doc, j, ax) = CentreOf(doc, i, ax) /\ j < i })
\* n - 1 times the distance, doubled, of the new centre of element i from its
\* place first + rank * (last - first) / (n - 1)
OffTarget(i, ax) ==
    LET n == Cardinality(Chosen)
        first == CHOOSE v \in { CentreOf(doc, j, ax) : j \in Chosen } :
                     \A j \in Chosen : v <= CentreOf(doc, j, ax)
        last == CHOOSE v \in { CentreOf(doc, j, ax) : j \in Chosen } :
                    \A j \in Chosen : v >= CentreOf(doc, j, ax)
    IN  (CentreOf(doc', i, ax) - first) * (n - 1) - CentreRank(i, ax) * (last - first)
\* distribute_selected has spread the selected elements along axis ax: a place
\* that is not on the grid of the coordinates is missed by less than one unit
DistributedAlong(ax) ==
    /\ Len(doc'.elements) = Len(doc.elements)
    /\ \A i \in Chosen :
          /\ IF OffTarget(i, ax) % (2 * (Cardinality(Chosen) - 1)) = 0
                  \/ CentreRank(i, ax) \in { 0, Cardinality(Chosen) - 1 }
             THEN OffTarget(i, ax) = 0
             ELSE Abs(OffTarget(i, ax)) < 2 * (Cardinality(Chosen) - 1)
          /\ CentreOf(doc', i, 3 - ax) = CentreOf(doc, i, 3 - ax)
          /\ RectSize(doc'.elements[i]) = RectSize(doc.elements[i])
          /\ [ doc'.elements[i] EXCEPT !.a = << 0, 0 >>, !.b = << 0, 0 >> ]
                = [ doc.elements[i] EXCEPT !.a = << 0, 0 >>, !.b = << 0, 0 >> ]
    /\ \A i \in (1..Len(doc.elements)) \ Chosen : doc'.elements[i] = doc.elements[i]
    /\ doc'.groups = doc.groups

\* C19: with n >= 3 selected elements, distribute_selected along an axis leaves
\* the elements with the smallest and the largest bounds-centre on that axis
\* where they are and moves the others so that, in centre order, the i-th
\* centre is first + i * (last - first) / (n - 1); the coordinates on the other
\* axis and all unselected elements are unchanged.
DistributeSpacesEvenly ==
    [][ (steps' # steps /\ lastOp' = "distribute" /\ Cardinality(Chosen) >= 3)
        => (DistributedAlong(1) \/ DistributedAlong(2)) ]_vars
\* three selected elements with centres at x = 0, 30 and 100 have been
\* distributed: the centres are now at 0, 50 and 100
DistributeSpacesEvenlyWitness ==
    /\ lastOp = "distribute"
    /\ Checkpointed
    /\ Len(doc.elements) = 3
    /\ PreApp.selected = ElementIds(PreApp.doc)
    /\ << CentreOf(PreApp.doc, 1, 1), CentreOf(PreApp.doc, 2, 1), CentreOf(PreApp.doc, 3, 1) >>
          = << 0, 60, 200 >>
    /\ << CentreOf(doc, 1, 1), CentreOf(doc, 2, 1), CentreOf(doc, 3, 1) >> = << 0, 100, 200 >>

\* C20: after zoom_about_screen_point(origin, s, f) on a view with zoom within
\* [0.1, 8.0] the zoom is clamp(zoom * f, 0.1, 8.0) and screen_to_world(origin, s)
\* is the world point it was before the call, also when the zoom was clamped.
ZoomKeepsAnchor ==
    IsSome(zoomed)
      => /\ view.zoom = RClamp(RMul(Unwrap(zoomed).view.zoom, Unwrap(zoomed).zoom_delta),
                               ZoomMin, ZoomMax)
         /\ screen_to_world(view, Unwrap(zoomed).origin, Unwrap(zoomed).screen_point)
               = screen_to_world(Unwrap(zoomed).view, Unwrap(zoomed).origin,
                                 Unwrap(zoomed).screen_point)
\* a zoom about a point off the origin has been clamped at 8.0 and has moved
\* the pan
ZoomKeepsAnchorWitness ==
    /\ IsSome(zoomed)
    /\ RLess(ZoomMax, RMul(Unwrap(zoomed).view.zoom, Unwrap(zoomed).zoom_delta))
    /\ RLess(Unwrap(zoomed).view.zoom, ZoomMax)
    /\ view.zoom = ZoomMax
    /\ view.pan_screen # Unwrap(zoomed).view.pan_screen
    /\ Unwrap(zoomed).screen_point # Unwrap(zoomed).origin

\* point p, doubled, lies on the segment from u to v, both doubled
OnSegment2(p, u, v) ==
    /\ (v[1] - u[1]) * (p[2] - u[2]) = (v[2] - u[2]) * (p[1] - u[1])
    /\ Min2(u[1], v[1]) <= p[1] /\ p[1] <= Max2(u[1], v[1])
    /\ Min2(u[2], v[2]) <= p[2] /\ p[2] <= Max2(u[2], v[2])
\* the corners, doubled, of the outline the editor paints for shape e: the
\* four corners of a rectangle; for a triangle the apex above the centre and
\* the two corners of the base
Outline2(e) ==
    IF e.kind = "Triangle"
    THEN << << e.a[1] + e.b[1], 2 * e.a[2] >>, << 2 * e.b[1], 2 * e.b[2] >>,
            << 2 * e.a[1], 2 * e.b[2] >> >>
    ELSE << << 2 * e.a[1], 2 * e.a[2] >>, << 2 * e.b[1], 2 * e.a[2] >>,
            << 2 * e.b[1], 2 * e.b[2] >>, << 2 * e.a[1], 2 * e.b[2] >> >>
OnOutline(e, p) ==
    \E i \in 1..Len(Outline2(e)) :
        OnSegment2(<< 2 * p[1], 2 * p[2] >>, Outline2(e)[i],
                   Outline2(e)[(i % Len(Outline2(e))) + 1])

\* C21: for every bindable shape of non-zero size and every world point,
\* compute_binding_for_target returns a binding whose norm lies in
\* [-0.5,0.5]^2 and whose resolve_binding_point lies on the boundary of the
\* shape, and the binding computed from that resolved point has the same norm.
BindingRoundTrip ==
    IsSome(probed)
      => /\ IsSome(Unwrap(probed).binding)
         /\ \A k \in 1..2 : Abs(Unwrap(Unwrap(probed).binding).norm[k]) <= 500
         /\ IsSome(Unwrap(probed).resolved)
         /\ OnOutline(doc.elements[1], Unwrap(Unwrap(probed).resolved))
         /\ compute_binding_for_target(doc, doc.elements[1].id,
                                       Unwrap(Unwrap(probed).resolved))
               = Unwrap(probed).binding

(***************************************************************************)
(* The handle session: the frames of interact_selection_handles with the   *)
(* resize and rotate handles of a shape and the end point handles of a     *)
(* line, between Cmd+A, undo and redo.  Some sessions start after a file   *)
(* was loaded over a drawing whose element carried the same id.            *)
(***************************************************************************)
MaxFrames == 4

OneLine == DrawLine(NewApp, << 0, 5 >>, << 10, 5 >>)
\* a line was drawn, a file holding one rectangle was opened, Cmd+A
SceneLoadedRect ==
    Only({ SelectAllOf(s) : s \in { open_json_dialog(OneLine, OneRect.doc) } })
\* a rectangle was drawn, a file holding one line was opened, Cmd+A
SceneLoadedLine ==
    Only({ SelectAllOf(s) : s \in { open_json_dialog(OneRect, OneLine.doc) } })

InitHandle == InitFrom({ OneRect, OneLine, TwoRects, SceneLoadedRect, SceneLoadedLine })

Frame == steps < MaxFrames /\ steps' = steps + 1
FramePoints == { << 5, -5 >>, << 15, 5 >>, << 5, 15 >>, << 12, 12 >> }

\* the frames that take an angle have the pointer on an axis through the
\* center of the selected element
Readable(p, handle) ==
    IF handle # "rotate"
       /\ (IF IsNone(active_transform) THEN TRUE
           ELSE Unwrap(active_transform).kind # "Rotate")
    THEN TRUE
    ELSE \A i \in 1..Len(doc.elements) :
            doc.elements[i].id \in selected => OnAxis(FromCenter2(doc.elements[i], p))

FrameStart ==
    /\ Frame
    /\ IsNone(active_transform)
    /\ \E h \in { "resize", "rotate", "Start", "End" } : \E p \in FramePoints :
          /\ Readable(p, h)
          /\ Ran("handle_start",
                 interact_selection_handles(App, Some(p), [ shift |-> FALSE, type |-> "start", handle |-> h ]))
FrameMove ==
    /\ Frame
    /\ \E p \in FramePoints :
          /\ Readable(p, "resize")
          /\ Ran("handle_move",
                 interact_selection_handles(App, Some(p),
                    [ shift |-> FALSE, type |-> "none", handle |-> "resize" ]))
FrameStop ==
    /\ Frame
    /\ IsSome(active_transform)
    /\ \E p \in FramePoints :
          /\ Readable(p, "resize")
          /\ Ran("handle_stop",
                 interact_selection_handles(App, Some(p),
                    [ shift |-> FALSE, type |-> "stop",
                      handle |-> CASE Unwrap(active_transform).kind = "Resize" -> "resize"
                                   [] Unwrap(active_transform).kind = "Rotate" -> "rotate"
                                   [] OTHER -> Unwrap(active_transform).endpoint ]))

NextHandle ==
    \/ FrameStart
    \/ FrameMove
    \/ FrameStop
    \/ SelectAll
    \/ Undo
    \/ Redo

SpecHandle == InitHandle /\ [][NextHandle]_vars

HandleFrames == { "handle_start", "handle_move", "handle_stop" }

\* the kinds an active transform goes with
Compatible(tr, e) == IF tr.kind = "LineEndpoint" THEN IsLine(e) ELSE IsShape(e)

\* C22: the transform leaves Idle, or changes to another transform, only in
\* a frame with exactly one selected element that exists; the new transform
\* carries the id of that element, Resize and Rotate are entered for a shape
\* and LineEndpoint for a line; a frame of interact_selection_handles with
\* zero or several selected elements leaves the state Idle
TransformEnteredForSoleSelection ==
    [][ /\ (IsSome(active_transform') /\ active_transform' # active_transform) =>
              /\ Cardinality(selected) = 1
              /\ selected' = selected
              /\ \E i \in 1..Len(doc.elements) :
                    /\ doc.elements[i].id \in selected
                    /\ Unwrap(active_transform').element_id = doc.elements[i].id
                    /\ Compatible(Unwrap(active_transform'), doc.elements[i])
        /\ (lastOp' \in HandleFrames /\ Cardinality(selected) # 1) =>
              IsNone(active_transform') ]_vars

\* a rotation was entered on the sole selected element
TransformEnteredWitness ==
    /\ lastOp = "handle_start"
    /\ IsSome(active_transform)
    /\ Unwrap(active_transform).kind = "Rotate"
    /\ IsSome(pre)
    /\ Unwrap(pre).selected = { Unwrap(active_transform).element_id }

\* the sole selected element, when there is one and it exists
SoleSelected ==
    IF Cardinality(selected) # 1 THEN None
    ELSE FindElement(doc, CHOOSE id \in selected : TRUE)

\* a frame that finds the transform of another element, or of an element of
\* an incompatible kind
Mismatched ==
    /\ IsSome(active_transform)
    /\ IsSome(SoleSelected)
    /\ \/ Unwrap(active_transform).element_id # Unwrap(SoleSelected).id
       \/ ~Compatible(Unwrap(active_transform), Unwrap(SoleSelected))

\* C23: a frame of interact_selection_handles that finds an active transform
\* whose element_id is not the sole selected element, or whose kind does not
\* go with the kind of that element, ends Idle and changes no element
TransformAbort ==
    [][ (lastOp' \in HandleFrames /\ Mismatched) =>
            (IsNone(active_transform') /\ doc' = doc) ]_vars

\* C24: group_selected on a selection of at least 2 selection roots adds
\* exactly one group record, a root whose id is the previous next_group_id,
\* makes it the parent of every selected root group and the group of every
\* selected ungrouped element, adds 1 to next_group_id and changes no other
\* element or group record nor the selection; on fewer selection roots (one
\* root group only, whatever the number of its elements) nothing changes
GroupingActsOnRoots ==
    [][ (steps' # steps /\ lastOp' = "group") =>
          IF Cardinality(SelectionRoots(doc, selected)) >= 2
          THEN /\ next_group_id' = next_group_id + 1
               /\ next_group_id \notin GroupIds(doc)
               /\ Len(doc'.groups) = Len(doc.groups) + 1
               /\ doc'.groups[Len(doc'.groups)] =
                     [ id |-> next_group_id, parent_id |-> None ]
               /\ \A k \in 1..Len(doc.groups) :
                     doc'.groups[k] =
                        IF << "group", doc.groups[k].id >> \in SelectionRoots(doc, selected)
                        THEN [ doc.groups[k] EXCEPT !.parent_id = Some(next_group_id) ]
                        ELSE doc.groups[k]
               /\ Len(doc'.elements) = Len(doc.elements)
               /\ \A k \in 1..Len(doc.elements) :
                     doc'.elements[k] =
                        IF << "element", doc.elements[k].id >>
                              \in SelectionRoots(doc, selected)
                        THEN [ doc.elements[k] EXCEPT !.group_id = Some(next_group_id) ]
                        ELSE doc.elements[k]
               /\ selected' = selected
          ELSE /\ doc' = doc
               /\ next_group_id' = next_group_id
               /\ selected' = selected
               /\ history' = history ]_vars

\* group_selected has just put a root group and an ungrouped element under a
\* new root
GroupingActsOnRootsWitness ==
    /\ lastOp = "group"
    /\ Checkpointed
    /\ \E r, q \in SelectionRoots(PreApp.doc, PreApp.selected) :
          r[1] = "group" /\ q[1] = "element"
    /\ Len(doc.groups) = Len(PreApp.doc.groups) + 1

\* the root groups that hold a selected element
SelectedRootGroups(d, sel) == { r[2] : r \in { q \in SelectionRoots(d, sel) : q[1] = "group" } }

\* C25: ungroup_selected removes one level: the record of every root group
\* that holds a selected element is removed, the elements and the groups
\* directly under such a group move to no group and become roots, every
\* other element and group record is kept as it is, in order; with no
\* grouped element selected nothing changes and no snapshot is pushed
UngroupRemovesOneLevel ==
    [][ (steps' # steps /\ lastOp' = "ungroup") =>
          IF SelectedRootGroups(doc, selected) = {}
          THEN doc' = doc /\ history' = history /\ future' = future
          ELSE /\ doc'.groups =
                    SelectSeq([ k \in 1..Len(doc.groups) |->
                                  IF IsSome(doc.groups[k].parent_id)
                                     /\ Unwrap(doc.groups[k].parent_id)
                                           \in SelectedRootGroups(doc, selected)
                                  THEN [ doc.groups[k] EXCEPT !.parent_id = None ]
                                  ELSE doc.groups[k] ],
                              LAMBDA gr : gr.id \notin SelectedRootGroups(doc, selected))
               /\ doc'.elements =
                    [ k \in 1..Len(doc.elements) |->
                        IF IsSome(doc.elements[k].group_id)
                           /\ Unwrap(doc.elements[k].group_id)
                                 \in SelectedRootGroups(doc, selected)
                        THEN [ doc.elements[k] EXCEPT !.group_id = None ]
                        ELSE doc.elements[k] ]
               /\ Len(history') = Len(history) + 1 ]_vars

\* the outer group of a nested pair was ungrouped: the inner group is a root
\* now and still has its members
UngroupRemovesOneLevelWitness ==
    /\ lastOp = "ungroup"
    /\ Checkpointed
    /\ \E i \in 1..Len(doc.groups) : \E j \in 1..Len(PreApp.doc.groups) :
          /\ doc.groups[i].id = PreApp.doc.groups[j].id
          /\ IsNone(doc.groups[i].parent_id)
          /\ IsSome(PreApp.doc.groups[j].parent_id)
          /\ \E k \in 1..Len(doc.elements) : doc.elements[k].group_id = Some(doc.groups[i].id)

\* the elements of the subtree of the root group of element id: those whose
\* group has the same topmost ancestor; {} for an ungrouped element
RootGroupMembers(d, id) ==
    LET mine == { k \in 1..Len(d.elements) : d.elements[k].id = id /\ IsSome(d.elements[k].group_id) }
    IN  { d.elements[k].id :
            k \in { j \in 1..Len(d.elements) :
                      /\ IsSome(d.elements[j].group_id)
                      /\ \E m \in mine :
                            TopmostAncestor(d, Unwrap(d.elements[j].group_id))
                               = TopmostAncestor(d, Unwrap(d.elements[m].group_id)) } }

\* the selection after a toggle on element id
Toggled(d, sel, id) ==
    IF RootGroupMembers(d, id) = {}
    THEN (IF id \in sel THEN sel \ { id } ELSE sel \cup { id })
    ELSE IF RootGroupMembers(d, id) \subseteq sel
    THEN sel \ RootGroupMembers(d, id)
    ELSE sel \cup RootGroupMembers(d, id)

\* C26: toggle_selection on a grouped element removes every element of the
\* subtree of its root group from the selection when all of them are
\* selected, and adds all of them otherwise; on an ungrouped element it flips
\* that element only; every other element keeps its selection status and
\* the Document is untouched
ToggleActsOnRootGroup ==
    [][ (steps' # steps /\ lastOp' = "shift_click") =>
          /\ doc' = doc
          /\ \E id \in ElementIds(doc) : selected' = Toggled(doc, selected, id)
          /\ \A id \in ElementIds(doc) :
                toggle_selection(App, id).selected = Toggled(doc, selected, id) ]_vars

\* a toggle on a member of a fully selected group has emptied the selection
ToggleActsOnRootGroupWitness ==
    /\ lastOp = "shift_click"
    /\ steps = 1
    /\ selected = {}
    /\ \E k \in 1..Len(doc.elements) : IsSome(doc.elements[k].group_id)

\* C27: in every state of the editing session (group, ungroup, delete,
\* duplicate, paste, undo, redo and the other handlers) the group_id of every
\* element and the parent_id of every group is the id of a record of
\* Document.groups, and no two records of Document.groups have the same id
NoDanglingGroupReferences ==
    /\ \A k \in 1..Len(doc.elements) :
          IsSome(doc.elements[k].group_id) =>
             Unwrap(doc.elements[k].group_id) \in GroupIds(doc)
    /\ \A k \in 1..Len(doc.groups) :
          IsSome(doc.groups[k].parent_id) =>
             Unwrap(doc.groups[k].parent_id) \in GroupIds(doc)
    /\ \A i, j \in 1..Len(doc.groups) : i # j => doc.groups[i].id # doc.groups[j].id

\* a root group was ungrouped and an inner group with members is left
NoDanglingGroupReferencesWitness ==
    /\ lastOp = "ungroup"
    /\ Checkpointed
    /\ Len(doc.groups) < Len(PreApp.doc.groups)
    /\ doc.groups # << >>
    /\ \E k \in 1..Len(doc.elements) : IsSome(doc.elements[k].group_id)

\* what translate_selected by d makes of one end of a selected line: stored
\* point p, binding bind and resolved position res before, p2 and bind2 after
EndTranslated(d, p, bind, res, p2, bind2) ==
    IF IsNone(bind) THEN p2 = PAdd(p, d) /\ IsNone(bind2)
    ELSE IF Unwrap(bind).element_id \in selected THEN bind2 = bind
    ELSE IF IsSome(compute_binding_for_target(doc, Unwrap(bind).element_id, PAdd(res, d)))
    THEN bind2 = compute_binding_for_target(doc, Unwrap(bind).element_id, PAdd(res, d))
    ELSE IsNone(bind2) /\ p2 = PAdd(res, d)

\* the step moves the selection by d
TranslatedBy(d) ==
    /\ Len(doc'.elements) = Len(doc.elements)
    /\ \A k \in 1..Len(doc.elements) :
          IF doc.elements[k].id \notin selected THEN doc'.elements[k] = doc.elements[k]
          ELSE IF ~IsLine(doc.elements[k])
          THEN doc'.elements[k] = [ doc.elements[k] EXCEPT !.a = PAdd(@, d), !.b = PAdd(@, d) ]
          ELSE /\ EndTranslated(d, doc.elements[k].a, doc.elements[k].start_binding,
                                LineEnds(doc, doc.elements[k])[1],
                                doc'.elements[k].a, doc'.elements[k].start_binding)
               /\ EndTranslated(d, doc.elements[k].b, doc.elements[k].end_binding,
                                LineEnds(doc, doc.elements[k])[2],
                                doc'.elements[k].b, doc'.elements[k].end_binding)
               /\ doc'.elements[k].id = doc.elements[k].id
               /\ doc'.elements[k].kind = doc.elements[k].kind

SceneTrackRect == Only({ set_selection_single(s, 1) : s \in { SceneTrack } })

\* the two rectangles joined by a line, with the first rectangle selected
SceneBoundRect == Only({ set_selection_single(s, 1) : s \in { SceneBound } })

InitFrame == InitFrom({ SceneTrack, SceneTrackRect, SceneBound, SceneBoundRect })

\* the sync that opens a frame; the frames are counted by their handlers
FrameSync ==
    /\ lastOp # "sync"
    /\ UNCHANGED steps
    /\ Ran("sync", sync_bound_line_endpoints(App))

NextFrame ==
    \/ FrameSync
    \/ lastOp = "sync" /\ (Click \/ ShiftClick \/ DragBy \/ Release \/ Nudge \/ Undo \/ Redo)

SpecFrame == InitFrame /\ [][NextFrame]_vars

\* an end of a line after the sync: the stored point is the resolved position
\* of its binding when the target exists, and the point it was otherwise
EndSynced(p, bind, p2) ==
    IF IsSome(bind) /\ IsSome(FindElement(doc, Unwrap(bind).element_id))
    THEN Some(p2) = resolve_binding_point(doc', Unwrap(bind))
    ELSE p2 = p

\* C29: sync_bound_line_endpoints writes back resolved positions only: after
\* it every end of a line with a binding to an existing target is stored at
\* the resolved position of the binding; unbound ends, the bindings, the
\* elements that are no lines, the order of the elements, the groups and the
\* selection are unchanged; a second run changes nothing; and it is the first
\* step of a frame: every handler of the keyboard or the pointer runs after
\* the sync of its frame
SyncWritesResolved ==
    [][ /\ lastOp' = "sync" =>
              /\ Len(doc'.elements) = Len(doc.elements)
              /\ \A k \in 1..Len(doc.elements) :
                    IF ~IsLine(doc.elements[k]) THEN doc'.elements[k] = doc.elements[k]
                    ELSE /\ [ doc'.elements[k] EXCEPT !.a = << 0, 0 >>, !.b = << 0, 0 >> ]
                              = [ doc.elements[k] EXCEPT !.a = << 0, 0 >>, !.b = << 0, 0 >> ]
                         /\ EndSynced(doc.elements[k].a, doc.elements[k].start_binding,
                                      doc'.elements[k].a)
                         /\ EndSynced(doc.elements[k].b, doc.elements[k].end_binding,
                                      doc'.elements[k].b)
              /\ doc'.groups = doc.groups
              /\ selected' = selected
              /\ history' = history
              /\ sync_bound_line_endpoints([ App EXCEPT !.doc = doc' ]).doc = doc'
        /\ lastOp' # "sync" => lastOp = "sync" ]_vars

\* a rectangle was dragged away from under the start of a line that was not
\* selected, and the sync of the next frame has moved the stored start after it
SyncWritesResolvedWitness ==
    /\ lastOp = "sync"
    /\ history # << >>
    /\ \E k \in 1..Len(doc.elements) :
          LET was == history[Len(history)].doc
          IN  /\ IsLine(doc.elements[k])
              /\ doc.elements[k].id \notin selected
              /\ Len(was.elements) = Len(doc.elements)
              /\ was.elements[k].start_binding = doc.elements[k].start_binding
              /\ IsSome(doc.elements[k].start_binding)
              /\ was.elements[k].a # doc.elements[k].a

\* the selected elements of the Document, in its order
SelectedInOrder == SelectSeq(doc.elements, LAMBDA e : e.id \in selected)

ScenePairs ==
    Only({ group_selected(s6) :
      s6 \in { SelectAllOf(s5) :
      s5 \in { group_selected(s4) :
      s4 \in { toggle_selection(s3, 3) :
      s3 \in { DrawRect(s2, << 90, 0 >>, << 100, 10 >>) :
      s2 \in { DrawRect(s1, << 60, 0 >>, << 70, 10 >>) :
      s1 \in { group_selected(s0) : s0 \in { SelectAllOf(TwoRects) } } } } } } } })

InitClip == InitFrom({ SceneNested, ScenePairs, SceneGroupedLine })

\* paste at the default offset or at the pointer
ClipPaste ==
    Step /\ \E target \in { None, Some(<< 100, 100 >>) } : Ran("paste", paste(App, target))

NextClip ==
    \/ Copy
    \/ Cut
    \/ ClipPaste
    \/ Click
    \/ ShiftClick
    \/ Ungroup
    \/ Group
    \/ Undo
    \/ Redo

SpecClip == InitClip /\ [][NextClip]_vars

\* the groups on the ancestor chains of the groups of the selected elements
AncestorChains(d, sel) ==
    { Climb(d, Unwrap(d.elements[k].group_id), n) :
        k \in { j \in 1..Len(d.elements) :
                  d.elements[j].id \in sel /\ IsSome(d.elements[j].group_id) },
        n \in 0..Len(d.groups) }

\* the group reference ref of the payload and the reference ref2 of the copy
\* agree under the map from the payload groups to the pasted groups gs
SameUnderMap(payload, gs, ref, ref2) ==
    IF IsNone(ref) THEN IsNone(ref2)
    ELSE \E j \in 1..Len(payload.groups) :
            payload.groups[j].id = Unwrap(ref) /\ ref2 = Some(gs[j].id)

\* C31: copy_selected stores the selected elements and every group on the
\* ancestor chain of the group of a selected element, and leaves the
\* Document, the selection, history and future alone; paste appends one new
\* group per payload group and one element per payload element such that the
\* group of each pasted element and the parent of each pasted group are the
\* images of those of the payload, the elements and groups that were there
\* are unchanged, and the selection becomes the pasted element ids
CopyPasteKeepsNesting ==
    [][ /\ (lastOp' = "copy" /\ selected # {}) =>
              /\ IsSome(clipboard')
              /\ Unwrap(clipboard').elements = SelectedInOrder
              /\ Unwrap(clipboard').groups =
                    SelectSeq(doc.groups, LAMBDA g : g.id \in AncestorChains(doc, selected))
              /\ doc' = doc /\ selected' = selected
              /\ history' = history /\ future' = future
        /\ (lastOp' = "paste" /\ IsSome(clipboard)
               /\ (IF IsSome(clipboard) THEN Unwrap(clipboard).elements # << >> ELSE FALSE)) =>
              /\ Len(doc'.elements) = Len(doc.elements) + Len(Unwrap(clipboard).elements)
              /\ Len(doc'.groups) = Len(doc.groups) + Len(Unwrap(clipboard).groups)
              /\ SubSeq(doc'.elements, 1, Len(doc.elements)) = doc.elements
              /\ SubSeq(doc'.groups, 1, Len(doc.groups)) = doc.groups
              /\ \A i \in 1..Len(Unwrap(clipboard).groups) :
                    /\ PastedGroups(doc, doc')[i].id \notin GroupIds(doc)
                    /\ SameUnderMap(Unwrap(clipboard), PastedGroups(doc, doc'),
                                    Unwrap(clipboard).groups[i].parent_id,
                                    PastedGroups(doc, doc')[i].parent_id)
              /\ \A i \in 1..Len(Unwrap(clipboard).elements) :
                    SameUnderMap(Unwrap(clipboard), PastedGroups(doc, doc'),
                                 Unwrap(clipboard).elements[i].group_id,
                                 PastedElements(doc, doc')[i].group_id)
              /\ selected' = { PastedElements(doc, doc')[i].id :
                                 i \in 1..Len(Unwrap(clipboard).elements) } ]_vars

\* a nested group was copied and pasted: a pasted element is in a pasted
\* group whose parent is pasted too, and the copy is the selection
CopyPasteKeepsNestingWitness ==
    /\ lastOp = "paste"
    /\ Checkpointed
    /\ IsSome(clipboard)
    /\ Len(Unwrap(clipboard).groups) >= 2
    /\ \E k \in (Len(PreApp.doc.elements) + 1)..Len(doc.elements) :
          /\ IsSome(doc.elements[k].group_id)
          /\ IsSome(ParentOf(doc, Unwrap(doc.elements[k].group_id)))
          /\ doc.elements[k].id \in selected
    /\ selected \cap ElementIds(PreApp.doc) = {}

\* the place in the sequence after the step of the element at place k before
PlaceAfter(k) == FirstIndex(doc'.elements, doc.elements[k].id)

\* the step permutes the elements: each is found again, unchanged
Permuted ==
    /\ Len(doc'.elements) = Len(doc.elements)
    /\ \A k \in 1..Len(doc.elements) :
          PlaceAfter(k) # 0 /\ doc'.elements[PlaceAfter(k)] = doc.elements[k]

\* the selected elements keep their order among themselves, and so do the others
OrderKeptInParts ==
    \A i, j \in 1..Len(doc.elements) :
        (i < j /\ (doc.elements[i].id \in selected <=> doc.elements[j].id \in selected))
            => PlaceAfter(i) < PlaceAfter(j)

\* C32: bring_selected_to_front and send_selected_to_back are stable
\* partitions of the element sequence: the same elements, every unselected
\* one before every selected one (front) or every selected one before every
\* unselected one (back), and the order inside the selected part and inside
\* the unselected part as before
LayeringIsStablePartition ==
    [][ /\ lastOp' = "bring_to_front" =>
              /\ Permuted /\ OrderKeptInParts
              /\ \A i, j \in 1..Len(doc.elements) :
                    (doc.elements[i].id \notin selected /\ doc.elements[j].id \in selected)
                        => PlaceAfter(i) < PlaceAfter(j)
        /\ lastOp' = "send_to_back" =>
              /\ Permuted /\ OrderKeptInParts
              /\ \A i, j \in 1..Len(doc.elements) :
                    (doc.elements[i].id \in selected /\ doc.elements[j].id \notin selected)
                        => PlaceAfter(i) < PlaceAfter(j) ]_vars

\* two selected elements with an unselected one between them were brought to
\* the front
LayeringIsStablePartitionWitness ==
    /\ lastOp = "bring_to_front"
    /\ Checkpointed
    /\ Len(PreApp.doc.elements) >= 3
    /\ PreApp.doc.elements[1].id \in PreApp.selected
    /\ PreApp.doc.elements[2].id \notin PreApp.selected
    /\ PreApp.doc.elements[3].id \in PreApp.selected
    /\ doc.elements[1] = PreApp.doc.elements[2]

\* a selected element at place k cannot move in direction dir: every place
\* from k to that end of the sequence holds a selected element
Blocked(k, dir) ==
    \A m \in (IF dir > 0 THEN k..Len(doc.elements) ELSE 1..k) :
        doc.elements[m].id \in selected

\* the step moves the selection by one layer in direction dir
LayerMovedBy(dir) ==
    /\ Permuted
    /\ OrderKeptInParts
    /\ \A k \in 1..Len(doc.elements) :
          doc.elements[k].id \in selected =>
             PlaceAfter(k) = IF Blocked(k, dir) THEN k ELSE k + dir

\* C33: move_selected_layer_by(+1 / -1) gives a permutation of the element
\* sequence in which every selected element moves by exactly one place in
\* the direction of motion, unless the end of the sequence or a blocked
\* selected neighbour blocks it (then it stays); none moves further, and the
\* order among the selected elements and among the others is kept
LayerMoveIsOneStep ==
    [][ lastOp' = "move_layer" => (LayerMovedBy(1) \/ LayerMovedBy(-1)) ]_vars

\* the lowest element was raised past one of two unselected elements above it
LayerMoveIsOneStepWitness ==
    /\ lastOp = "move_layer"
    /\ Checkpointed
    /\ Len(doc.elements) >= 3
    /\ PreApp.selected = { PreApp.doc.elements[1].id }
    /\ doc.elements[2] = PreApp.doc.elements[1]
    /\ doc.elements[3] = PreApp.doc.elements[3]

\* ---------------------------------------------------------------------------
\* Auto-connect
\* ---------------------------------------------------------------------------
\* a file holding a rectangle and a second one of zero width was opened, Cmd+A
SceneFlat ==
    Only({ SelectAllOf(s) : s \in { open_json_dialog(NewApp,
        [ TwoRects.doc EXCEPT !.elements[2].b = << TwoRects.doc.elements[2].a[1], 10 >> ]) } })

InitConnect == InitFrom({ SceneBound, SceneFlat })

NextConnect ==
    \/ Click
    \/ ShiftClick
    \/ SelectAll
    \/ AutoConnect
    \/ Undo
    \/ Redo

SpecConnect == InitConnect /\ [][NextConnect]_vars

\* the element of the Document with this id is a bindable shape of non-zero size
BindableTarget(d, id) ==
    \E i \in 1..Len(d.elements) :
        /\ d.elements[i].id = id
        /\ IsShape(d.elements[i])
        /\ RectSize(d.elements[i])[1] > 0
        /\ RectSize(d.elements[i])[2] > 0

ConnectsSelection ==
    /\ Len(history') = Len(history) + 1
    /\ SubSeq(history', 1, Len(history)) = history
    /\ history'[Len(history')] = snapshot(App)
    /\ Len(doc'.elements) = Len(doc.elements) + 1
    /\ SubSeq(doc'.elements, 1, Len(doc.elements)) = doc.elements
    /\ doc'.groups = doc.groups
    /\ next_id' = next_id + 1
    /\ LET l == doc'.elements[Len(doc'.elements)]
       IN  /\ l.id = next_id
           /\ IsLine(l)
           /\ IsNone(l.group_id)
           /\ IF IsSome(l.start_binding) /\ IsSome(l.end_binding)
              THEN /\ Unwrap(l.start_binding).element_id \in selected
                   /\ Unwrap(l.end_binding).element_id \in selected
                   /\ Unwrap(l.start_binding).element_id # Unwrap(l.end_binding).element_id
              ELSE FALSE
           /\ selected' = { l.id }

ConnectsNothing ==
    /\ doc' = doc
    /\ selected' = selected
    /\ history' = history
    /\ next_id' = next_id
    /\ IsSome(status')

\* C34: auto-connect with exactly two selected bindable shapes of non-zero
\* size pushes one snapshot, appends one ungrouped Line with its two ends bound
\* to the two shapes and selects it; in every other case the Document, the
\* selection, the history and next_id stay and a status message is set
AutoConnectAllOrNothing ==
    [][ lastOp' = "auto_connect" =>
          IF Cardinality(selected) = 2 /\ \A id \in selected : BindableTarget(doc, id)
          THEN ConnectsSelection
          ELSE ConnectsNothing ]_vars

AutoConnectAllOrNothingWitness ==
    /\ lastOp = "auto_connect"
    /\ Checkpointed
    /\ Cardinality(PreApp.selected) = 2
    /\ Len(doc.elements) = Len(PreApp.doc.elements) + 1
    /\ IsLine(doc.elements[Len(doc.elements)])
    /\ IsSome(doc.elements[Len(doc.elements)].start_binding)
    /\ IsSome(doc.elements[Len(doc.elements)].end_binding)
    /\ selected = { doc.elements[Len(doc.elements)].id }

\* an auto-connect refused for a selected pair that holds a line, and one
\* refused for a pair that holds a shape of zero width
AutoConnectRefused ==
    /\ lastOp = "auto_connect"
    /\ Cardinality(selected) = 2
    /\ \E i \in 1..Len(doc.elements) : doc.elements[i].id \in selected /\ IsLine(doc.elements[i])
    /\ status \in { Some("Cannot bind start endpoint to selected object"),
                    Some("Cannot bind end endpoint to selected object") }
AutoConnectRefusedFlat ==
    /\ lastOp = "auto_connect"
    /\ Cardinality(selected) = 2
    /\ \E i \in 1..Len(doc.elements) :
          doc.elements[i].id \in selected /\ IsShape(doc.elements[i]) /\ RectSize(doc.elements[i])[1] = 0
    /\ status \in { Some("Cannot bind start endpoint to selected object"),
                    Some("Cannot bind end endpoint to selected object") }

\* ---------------------------------------------------------------------------
\* Gestures of the Select tool: a press, drag frames and a release on the
\* canvas, and the frames of a handle of the selected element
\* ---------------------------------------------------------------------------
InitGesture == InitFrom({ OneRect, OneLine, TwoRects })

GesturePress ==
    /\ Frame
    /\ IsNone(active_transform)
    /\ \E p \in PressPoints : \E multi_select \in BOOLEAN :
          Ran("press", press(App, "Select", p, multi_select))
GestureDrag ==
    /\ Frame
    /\ IsNone(active_transform)
    /\ \E delta \in DragDeltas : Ran("drag", dragged(App, << 15, 15 >>, delta))
GestureRelease ==
    /\ Frame
    /\ IsNone(active_transform)
    /\ Ran("release", released(App))

NextGesture ==
    \/ GesturePress
    \/ GestureDrag
    \/ GestureRelease
    \/ FrameStart
    \/ FrameMove
    \/ FrameStop

SpecGesture == InitGesture /\ [][NextGesture]_vars

\* the step appends one snapshot, the state it starts from
AppendsCheckpoint ==
    /\ history' = Append(history, snapshot(App))
    /\ history'[Len(history')].doc = doc

\* C35: a drag of the selection takes one checkpoint, at its first drag frame
\* and of the state before the frame, and none at a later frame or at the
\* release; a drag with an empty selection takes none; a handle takes one
\* checkpoint at the frame its drag starts, before any change, and none at a
\* later frame or at the frame its drag stops
GestureCheckpointsOnce ==
    [][ /\ (lastOp' = "drag" /\ IsNone(in_progress)) =>
              IF selected = {} THEN history' = history /\ doc' = doc
              ELSE IF lastOp = "press" THEN AppendsCheckpoint
              ELSE IF lastOp = "drag" THEN history' = history
              ELSE TRUE
        /\ (lastOp' = "release" /\ IsNone(in_progress)) => history' = history
        /\ lastOp' = "handle_start" =>
              IF IsSome(active_transform') /\ IsNone(active_transform)
              THEN AppendsCheckpoint /\ doc' = doc
              ELSE history' = history
        /\ lastOp' \in { "handle_move", "handle_stop" } => history' = history ]_vars

\* a second drag frame moved the selection without another checkpoint
GestureCheckpointsOnceWitness ==
    /\ lastOp = "drag"
    /\ IsNone(pre)
    /\ drag_transform_recorded
    /\ selected # {}
    /\ Len(history) = 2

\* a handle was dragged over a frame after the one that started it
GestureHandleMoved ==
    /\ lastOp = "handle_move"
    /\ IsSome(active_transform)
    /\ IsNone(pre)
    /\ Len(history) = 2

\* ---------------------------------------------------------------------------
\* Resizing: a shape is resized through any of its eight handles
\* ---------------------------------------------------------------------------
\* a rectangle twice as wide as it is high
SceneWide == DrawRect(NewApp, << 0, 0 >>, << 20, 10 >>)

InitResize == InitFrom({ OneRect, SceneWide })

ResizePoints == { << 0, 0 >>, << 4, -6 >>, << -30, -20 >>, << 20, 10 >>, << 2, 2 >>, << -6, 8 >> }

\* the rect of a Resize transform for a pointer, before the clamp
Unclamped(tr, p, shift) ==
    Bind(HandleMoved(tr.handle, tr.start_rect,
                     rotate_vec2(PSub(p, tr.start_pointer_world), 0 - tr.start_rotation)),
         LAMBDA moved : IF shift THEN AspectLocked(tr.handle, moved, tr.start_rect) ELSE moved)

\* the frames taken are those whose quotients are whole numbers: the locked
\* side, and the midpoint of an extent that is clamped
ExactLock(tr, p) ==
    Bind(HandleMoved(tr.handle, tr.start_rect,
                     rotate_vec2(PSub(p, tr.start_pointer_world), 0 - tr.start_rotation)),
         LAMBDA r :
    Bind(<< r[2][1] - r[1][1], r[2][2] - r[1][2],
            Abs(tr.start_rect[2][1] - tr.start_rect[1][1]),
            Abs(tr.start_rect[2][2] - tr.start_rect[1][2]) >>, LAMBDA m :
         IF tr.handle \notin CornerHandles \/ m[3] <= 0 \/ m[4] <= 0 \/ m[2] = 0 THEN TRUE
         ELSE IF WiderThan(m[1], m[2], m[3], m[4])
         THEN (m[2] * m[3]) % m[4] = 0
         ELSE (m[1] * m[4]) % m[3] = 0))
ExactResize(p, shift) ==
    IF IsNone(active_transform) THEN TRUE
    ELSE IF Unwrap(active_transform).kind # "Resize" THEN TRUE
    ELSE /\ shift => ExactLock(Unwrap(active_transform), p)
         /\ Bind(Unclamped(Unwrap(active_transform), p, shift), LAMBDA u :
                 \A ax \in 1..2 :
                    u[2][ax] - u[1][ax] < min_size_world => (u[1][ax] + u[2][ax]) % 2 = 0)

ResizeStart ==
    /\ Frame
    /\ IsNone(active_transform)
    /\ \E h \in ResizeHandles :
          Ran("handle_start",
              interact_selection_handles(App, Some(<< 0, 0 >>),
                 [ shift |-> FALSE, type |-> "start", handle |-> h ]))
ResizeMove ==
    /\ Frame
    /\ IsSome(active_transform)
    /\ \E p \in ResizePoints : \E shift \in BOOLEAN :
          /\ ExactResize(p, shift)
          /\ Ran("handle_move",
                 interact_selection_handles(App, Some(p),
                    [ shift |-> shift, type |-> "none", handle |-> "SE" ]))
ResizeStop ==
    /\ Frame
    /\ IsSome(active_transform)
    /\ \E p \in ResizePoints : \E shift \in BOOLEAN :
          /\ ExactResize(p, shift)
          /\ Ran("handle_stop",
                 interact_selection_handles(App, Some(p),
                    [ shift |-> shift, type |-> "stop",
                      handle |-> Unwrap(active_transform).handle ]))

NextResize ==
    \/ ResizeStart
    \/ ResizeMove
    \/ ResizeStop
    \/ Undo

SpecResize == InitResize /\ [][NextResize]_vars

\* the frame applies the active Resize transform to the element at place i
ResizeApplied(i) ==
    /\ lastOp' \in { "handle_move", "handle_stop" }
    /\ IF IsSome(active_transform) THEN Unwrap(active_transform).kind = "Resize" ELSE FALSE
    /\ selected = { doc.elements[i].id }
    /\ Unwrap(active_transform).element_id = doc.elements[i].id
    /\ IsShape(doc.elements[i])

\* the rect r is at least min_size_world wide and high, and on every axis it is
\* the extent of u, or min_size_world about the midpoint of a shorter extent
ClampedFrom(r, u) ==
    \A ax \in 1..2 :
        /\ r[1][ax] <= r[2][ax]
        /\ r[2][ax] - r[1][ax] >= 8
        /\ IF u[2][ax] - u[1][ax] < 8
           THEN r[1][ax] + r[2][ax] = u[1][ax] + u[2][ax] /\ r[2][ax] - r[1][ax] = 8
           ELSE r[1][ax] = u[1][ax] /\ r[2][ax] = u[2][ax]

\* C36: after every frame that applies a Resize transform, for any handle,
\* any pointer and with or without the aspect lock, the rect of the element
\* has min <= max, a width and a height of at least 8, and a clamped axis is
\* centered on the midpoint of the extent it had before the clamp
ResizeKeepsMinimum ==
    [][ \A i \in 1..Len(doc.elements) :
          (ResizeApplied(i) /\ Len(doc'.elements) = Len(doc.elements)) =>
             \E p \in ResizePoints : \E shift \in BOOLEAN :
                /\ ExactResize(p, shift)
                /\ ClampedFrom(<< doc'.elements[i].a, doc'.elements[i].b >>,
                               Unclamped(Unwrap(active_transform), p, shift)) ]_vars

\* a corner handle was dragged across the opposite corner with the aspect
\* locked, and the rect was clamped on both axes
ResizeKeepsMinimumWitness ==
    /\ lastOp = "handle_move"
    /\ IF IsSome(active_transform)
       THEN /\ Unwrap(active_transform).kind = "Resize"
            /\ Unwrap(active_transform).handle = "NW"
       ELSE FALSE
    /\ \E i \in 1..Len(doc.elements) :
          /\ doc.elements[i].id \in selected
          /\ RectSize(doc.elements[i]) = << 8, 8 >>
          /\ doc.elements[i].a # Unwrap(active_transform).start_rect[1]

\* ---------------------------------------------------------------------------
\* Dragging an end point of a line
\* ---------------------------------------------------------------------------
\* two overlapping rectangles and a free line, the line selected
SceneStack ==
    Only({ DrawLine(s2, << 60, 5 >>, << 90, 5 >>) :
             s2 \in { DrawRect(s1, << 5, 0 >>, << 15, 10 >>) : s1 \in { OneRect } } })
\* the two rectangles joined by a line, the line selected
SceneBoundLine == Only({ set_selection_single(s, 3) : s \in { SceneBound } })

InitEndpoint == InitFrom({ SceneStack, SceneBoundLine })

EndpointPoints == { << 7, 5 >>, << -4, 5 >>, << 35, 5 >>, << 50, 50 >> }

EndpointStart ==
    /\ Frame
    /\ IsNone(active_transform)
    /\ \E h \in { "Start", "End" } : \E p \in EndpointPoints :
          Ran("handle_start",
              interact_selection_handles(App, Some(p),
                 [ shift |-> FALSE, type |-> "start", handle |-> h ]))
EndpointMove ==
    /\ Frame
    /\ IsSome(active_transform)
    /\ \E p \in EndpointPoints :
          Ran("handle_move",
              interact_selection_handles(App, Some(p),
                 [ shift |-> FALSE, type |-> "none", handle |-> "Start" ]))
EndpointStop ==
    /\ Frame
    /\ IsSome(active_transform)
    /\ \E p \in EndpointPoints :
          Ran("handle_stop",
              interact_selection_handles(App, Some(p),
                 [ shift |-> FALSE, type |-> "stop",
                   handle |-> Unwrap(active_transform).endpoint ]))

NextEndpoint ==
    \/ EndpointStart
    \/ EndpointMove
    \/ EndpointStop
    \/ Undo

SpecEndpoint == InitEndpoint /\ [][NextEndpoint]_vars

\* the frame applies the active LineEndpoint transform to the line at place i
EndpointApplied(i) ==
    /\ IF IsSome(active_transform)
       THEN Unwrap(active_transform).kind = "LineEndpoint" ELSE FALSE
    /\ selected = { doc.elements[i].id }
    /\ Unwrap(active_transform).element_id = doc.elements[i].id
    /\ IsLine(doc.elements[i])
    /\ Len(doc'.elements) = Len(doc.elements)

\* the stored point and the binding of an end of a line
EndPoint(e, which) == IF which = "Start" THEN e.a ELSE e.b
EndBinding(e, which) == IF which = "Start" THEN e.start_binding ELSE e.end_binding
OtherEnd(which) == IF which = "Start" THEN "End" ELSE "Start"

\* the places of the bindable shapes hit at p within the threshold
ShapesHit(p) ==
    { k \in 1..Len(doc.elements) :
        IsShape(doc.elements[k]) /\ hit_test_rotated_rect(doc.elements[k], p, threshold_world) }

\* the dragged end after a drag frame with the pointer at p
DraggedTo(e2, tr, p) ==
    /\ IsNone(EndBinding(e2, tr.endpoint))
    /\ EndPoint(e2, tr.endpoint) =
          PAdd(IF tr.endpoint = "Start" THEN tr.start_a ELSE tr.start_b,
               PSub(p, tr.start_pointer_world))

\* the dragged end after a release with the pointer at p
ReleasedAt(e2, tr, p) ==
    IF ShapesHit(p) = {}
    THEN IsNone(EndBinding(e2, tr.endpoint)) /\ EndPoint(e2, tr.endpoint) = p
    ELSE IF IsSome(EndBinding(e2, tr.endpoint))
    THEN /\ Unwrap(EndBinding(e2, tr.endpoint)).element_id =
               doc.elements[CHOOSE k \in ShapesHit(p) : \A j \in ShapesHit(p) : j <= k].id
         /\ EndBinding(e2, tr.endpoint) =
               compute_binding_for_element(
                  doc.elements[CHOOSE k \in ShapesHit(p) : \A j \in ShapesHit(p) : j <= k], p)
         /\ Some(EndPoint(e2, tr.endpoint)) =
               resolve_binding_point(doc', Unwrap(EndBinding(e2, tr.endpoint)))
    ELSE FALSE

EndpointUnbound ==
    /\ lastOp = "handle_move"
    /\ IsSome(active_transform)
    /\ \E i \in 1..Len(doc.elements) :
          /\ IsLine(doc.elements[i])
          /\ IsNone(doc.elements[i].start_binding) # IsNone(doc.elements[i].end_binding)

\* ---------------------------------------------------------------------------
\* Bounds of an element
\* ---------------------------------------------------------------------------
\* the files opened: one element each, among them the unrotated Rect with the
\* local rect (0,0)-(100,100) and the Line from (0,0) to (10,0), stroke width 2
BoundsCorners == { << 100, 100 >>, << 10, 0 >>, << 40, 20 >>, << 6, 8 >> }
StrokeWidths == { 1, 2, 4 }
BoundsElement(kind, a, b, w, q) ==
    [ NewElement(1, kind, a, b, None, None, [ width |-> w, fill |-> None ])
        EXCEPT !.rotation = q ]
BoundsInputs ==
    { BoundsElement(kind, << 0, 0 >>, b, w, q) :
        kind \in { "Rect", "Triangle" }, b \in BoundsCorners, w \in StrokeWidths, q \in { 0, 1 } }
    \cup { BoundsElement("Line", a, b, w, 0) :
        a \in { << 0, 0 >>, << 30, 4 >> }, b \in BoundsCorners, w \in StrokeWidths }

InitBounds ==
    InitFrom({ open_json_dialog(NewApp, [ elements |-> << e >>, groups |-> << >> ]) :
                 e \in BoundsInputs })

\* the bounds of an element of the Document are taken
Measure ==
    /\ steps < MaxProbes
    /\ steps' = steps + 1
    /\ \E i \in 1..Len(doc.elements) :
          probed' = Some([ element |-> doc.elements[i], bounds |-> bounds(doc.elements[i]) ])
    /\ lastOp' = "bounds"
    /\ UNCHANGED << doc, selected, next_id, next_group_id, style, in_progress,
                    active_transform, editing_text_id, status, history, future,
                    clipboard, drag_transform_recorded, view, zoomed, trail, pre, issued >>

NextBounds == Measure

SpecBounds == InitBounds /\ [][NextBounds]_vars

\* the axis-aligned box of the outline: the local rect of a shape, turned about
\* its center when the shape is rotated by a quarter turn, and the box of the
\* two end points of a line
OutlineBox(e) ==
    IF IsLine(e)
    THEN << << Min2(e.a[1], e.b[1]), Min2(e.a[2], e.b[2]) >>,
            << Max2(e.a[1], e.b[1]), Max2(e.a[2], e.b[2]) >> >>
    ELSE IF e.rotation = 0 THEN << e.a, e.b >>
    ELSE << << (e.a[1] + e.b[1] - (e.b[2] - e.a[2])) \div 2,
               (e.a[2] + e.b[2] - (e.b[1] - e.a[1])) \div 2 >>,
            << (e.a[1] + e.b[1] + (e.b[2] - e.a[2])) \div 2,
               (e.a[2] + e.b[2] + (e.b[1] - e.a[1])) \div 2 >> >>

ExpandedBy(box, r, amnt) ==
    /\ box[1] = << r[1][1] - amnt, r[1][2] - amnt >>
    /\ box[2] = << r[2][1] + amnt, r[2][2] + amnt >>

WalkParents == { None, Some(1), Some(2), Some(3) }
WalkTables ==
    { << [ id |-> 1, parent_id |-> p1 ], [ id |-> 2, parent_id |-> p2 ],
         [ id |-> 3, parent_id |-> p3 ] >> :
        p1 \in WalkParents, p2 \in WalkParents, p3 \in WalkParents }
WalkDoc(groups) ==
    [ elements |-> [ i \in 1..3 |-> [ SceneRow.doc.elements[i] EXCEPT !.group_id = Some(i) ] ],
      groups |-> groups ]

InitWalk == InitFrom({ open_json_dialog(NewApp, WalkDoc(groups)) : groups \in WalkTables })

Walking == IF IsSome(probed) THEN lastOp = "walk" ELSE FALSE

\* no group was popped twice
PoppedOnce(out) == \A i \in 1..Len(out) : \A j \in 1..Len(out) : out[i] = out[j] => i = j

\* set_selection_single or toggle_selection on an element: group_root, then
\* the stack of group_descendants_inclusive is set up
WalkStart ==
    /\ ~Walking
    /\ Step
    /\ \E id \in ElementIds(doc) : \E op \in { "click", "shift_click" } :
          probed' = Some([ op |-> op, id |-> id,
                           stack |-> << Unwrap(root_group_of_element(App, id)) >>,
                           out |-> << >> ])
    /\ lastOp' = "walk"
    /\ UNCHANGED << doc, selected, next_id, next_group_id, style, in_progress,
                    active_transform, editing_text_id, status, history, future,
                    clipboard, drag_transform_recorded, view, zoomed, trail, pre, issued >>
\* a turn of the loop; the turns are followed until a group is popped again,
\* from where on the loop repeats itself
WalkTurn ==
    /\ Walking
    /\ Unwrap(probed).stack # << >>
    /\ PoppedOnce(Unwrap(probed).out)
    /\ \E st \in { DescendantsTurn(App, << Unwrap(probed).stack, Unwrap(probed).out >>) } :
          probed' = Some([ Unwrap(probed) EXCEPT !.stack = st[1], !.out = st[2] ])
    /\ UNCHANGED << doc, selected, next_id, next_group_id, style, in_progress,
                    active_transform, editing_text_id, status, history, future,
                    clipboard, drag_transform_recorded, view, zoomed, lastOp, trail, pre,
                    issued, steps >>
\* the stack is empty: the members are selected
WalkEnd ==
    /\ Walking
    /\ Unwrap(probed).stack = << >>
    /\ UNCHANGED steps
    /\ Ran(Unwrap(probed).op,
           IF Unwrap(probed).op = "click"
           THEN set_selection_single(App, Unwrap(probed).id)
           ELSE toggle_selection(App, Unwrap(probed).id))
WalkNormalize ==
    /\ ~Walking
    /\ Step
    /\ Ran("normalize", normalize_groups(App))

NextWalk ==
    \/ WalkStart
    \/ WalkTurn
    \/ WalkEnd
    \/ WalkNormalize

SpecWalk == InitWalk /\ [][NextWalk]_vars

\* C39: group traversal ends for every group table, with a cycle or a
\* self-parent as well: group_root returns a group after its hops, and the
\* loop of group_descendants_inclusive under set_selection_single and
\* toggle_selection pops no group a second time, so that it empties its stack
GroupTraversalEnds ==
    Walking => PoppedOnce(Unwrap(probed).out)

\* a walk over a table with a chain of three groups emptied its stack
GroupTraversalEnded ==
    /\ lastOp \in { "click", "shift_click" }
    /\ IsSome(probed)
    /\ Unwrap(probed).stack = << >>
    /\ Len(Unwrap(probed).out) = 3
    /\ Cardinality(selected) = 3

\* ---------------------------------------------------------------------------
\* Opening files: a drawing is replaced by a loaded Document that holds groups
\* ---------------------------------------------------------------------------
InitOpen == InitFrom({ NewApp, OneRect, SceneGroup })

OpenDocs == { TwoRects.doc, SceneGroup.doc, SceneNested.doc }

\* Cmd/Ctrl+O with a file that parses
Open ==
    /\ Step
    /\ \E loaded \in OpenDocs : Ran("open", open_json_dialog(App, loaded))

NextOpen ==
    \/ Open
    \/ Click
    \/ SelectAll
    \/ Group
    \/ Ungroup
    \/ Undo
    \/ Redo

SpecOpen == InitOpen /\ [][NextOpen]_vars

\* C40: in every reachable state, right after open_json_dialog and after undo
\* and redo as well, next_group_id is greater than the id of every group of
\* the Document and than the group_id of every element, so that a new group
\* never takes an id that exists and never becomes its own parent
GroupIdsFresh ==
    /\ \A i \in 1..Len(doc.groups) : doc.groups[i].id < next_group_id
    /\ \A i \in 1..Len(doc.elements) :
          IsSome(doc.elements[i].group_id) => Unwrap(doc.elements[i].group_id) < next_group_id
    /\ \A i \in 1..Len(doc.groups) : \A j \in 1..Len(doc.groups) :
          doc.groups[i].id = doc.groups[j].id => i = j
    /\ \A i \in 1..Len(doc.groups) : doc.groups[i].parent_id # Some(doc.groups[i].id)

\* a file with a group was opened in a fresh editor: the group has the id that
\* the next new group will get
GroupIdStale ==
    /\ lastOp = "open"
    /\ \E i \in 1..Len(doc.groups) : doc.groups[i].id >= next_group_id

\* after the file was opened, group_selected made a second group with an id
\* of the table and hung the first one under itself
GroupOwnParent ==
    /\ lastOp = "group"
    /\ \E i \in 1..Len(doc.groups) : \E j \in 1..Len(doc.groups) :
          /\ i # j
          /\ doc.groups[i].id = doc.groups[j].id
          /\ doc.groups[i].parent_id = Some(doc.groups[i].id)

====
